---- MODULE Spec2Model ----
(***************************************************************************)
(* dockerbackup: the archive subsystem (pkg/archive), the dependency order *)
(* resolver (pkg/compose) and the backup/restore engine (pkg/backup),      *)
(* modelled as state machines over one host filesystem.                    *)
(*                                                                         *)
(* A Go string is a sequence of one-character strings, so that every       *)
(* string operation of the code (prefix tests, splitting on "/", cleaning, *)
(* byte-wise ordering) is computed and not assumed.                        *)
(***************************************************************************)
EXTENDS Integers, Sequences, FiniteSets, TLC

VARIABLES
    fs,        \* the host filesystem: physical location -> node
    ctxDone,   \* the context's Done channel is closed (cancellation raised)
    tar,       \* the running operation of the TarArchiveHandler
    drv,       \* the locals of the caller that drives the archive handler
    ord,       \* the locals of a call of compose.OrderFromComposeYAML
    eng,       \* the calls of the backup engine: the call stack and the returns
    rst        \* the locals of a single-unit Restore from the unit
               \* specification to its return, and what it asked of the runtime

vars == <<fs, ctxDone, tar, drv, ord, eng, rst>>

(***************************************************************************)
(* Strings                                                                 *)
(***************************************************************************)
\* Byte values of the characters the model uses (the order of sort.Strings
\* and of the directory listing of filepath.WalkDir).
CharCode ==
    ("-" :> 45) @@ ("." :> 46) @@ ("/" :> 47) @@ (":" :> 58) @@
    ("0" :> 48) @@ ("1" :> 49) @@ ("2" :> 50) @@ ("3" :> 51) @@
    ("4" :> 52) @@ ("5" :> 53) @@ ("6" :> 54) @@ ("7" :> 55) @@
    ("8" :> 56) @@ ("9" :> 57) @@ ("A" :> 65) @@ ("B" :> 66) @@
    ("C" :> 67) @@ ("Z" :> 90) @@ ("_" :> 95) @@ ("a" :> 97) @@
    ("b" :> 98) @@ ("c" :> 99) @@ ("d" :> 100) @@ ("e" :> 101) @@
    ("f" :> 102) @@ ("g" :> 103) @@ ("h" :> 104) @@ ("i" :> 105) @@
    ("j" :> 106) @@ ("k" :> 107) @@ ("l" :> 108) @@ ("m" :> 109) @@
    ("n" :> 110) @@ ("o" :> 111) @@ ("p" :> 112) @@ ("q" :> 113) @@
    ("r" :> 114) @@ ("s" :> 115) @@ ("t" :> 116) @@ ("u" :> 117) @@
    ("v" :> 118) @@ ("w" :> 119) @@ ("x" :> 120) @@ ("y" :> 121) @@
    ("z" :> 122)

\* a < b in Go's string order (byte-wise, a proper prefix first)
StrLess(a, b) ==
    \E i \in 1..Len(b) :
        /\ i <= Len(a) + 1
        /\ \A j \in 1..(i - 1) : a[j] = b[j]
        /\ (i = Len(a) + 1 \/ CharCode[a[i]] < CharCode[b[i]])

HasPrefix(s, p) == Len(p) <= Len(s) /\ SubSeq(s, 1, Len(p)) = p

TrimPrefix(s, p) == IF HasPrefix(s, p) THEN SubSeq(s, Len(p) + 1, Len(s)) ELSE s

HasSuffix(s, p) == Len(p) <= Len(s) /\ SubSeq(s, Len(s) - Len(p) + 1, Len(s)) = p

Dot == <<".">>
DotDot == <<".", ".">>
Slash == <<"/">>

\* strings.Split(s, "/")
RECURSIVE Split(_)
Split(s) ==
    IF \A i \in 1..Len(s) : s[i] # "/" THEN <<s>>
    ELSE LET k == CHOOSE i \in 1..Len(s) : s[i] = "/" /\ \A j \in 1..(i - 1) : s[j] # "/"
         IN  <<SubSeq(s, 1, k - 1)>> \o Split(SubSeq(s, k + 1, Len(s)))

\* strings.Join(comps, "/")
RECURSIVE JoinSep(_)
JoinSep(comps) ==
    IF comps = <<>> THEN <<>>
    ELSE IF Len(comps) = 1 THEN comps[1]
    ELSE comps[1] \o Slash \o JoinSep(Tail(comps))

\* the non-empty elements of a path string
Elements(s) == SelectSeq(Split(s), LAMBDA c : c # <<>>)

IsAbs(s) == s # <<>> /\ s[1] = "/"

(***************************************************************************)
(* path/filepath                                                           *)
(***************************************************************************)
RECURSIVE CleanFold(_, _, _)
CleanFold(out, rest, rooted) ==
    IF rest = <<>> THEN out
    ELSE LET c == Head(rest)
             nxt == IF c = <<>> \/ c = Dot THEN out
                    ELSE IF c = DotDot
                         THEN IF out # <<>> /\ out[Len(out)] # DotDot
                              THEN SubSeq(out, 1, Len(out) - 1)
                              ELSE IF rooted THEN out ELSE Append(out, c)
                         ELSE Append(out, c)
         IN  CleanFold(nxt, Tail(rest), rooted)

\* filepath.Clean
Clean(s) ==
    IF s = <<>> THEN Dot
    ELSE LET j == JoinSep(CleanFold(<<>>, Split(s), IsAbs(s)))
         IN  IF IsAbs(s) THEN Slash \o j
             ELSE IF j = <<>> THEN Dot ELSE j

\* filepath.Join(a, b): the non-empty elements joined by "/", then cleaned
Join(a, b) ==
    IF a = <<>> /\ b = <<>> THEN <<>>
    ELSE IF a = <<>> THEN Clean(b)
    ELSE IF b = <<>> THEN Clean(a)
    ELSE Clean(a \o Slash \o b)

LastSlash(s) ==
    IF \E i \in 1..Len(s) : s[i] = "/"
    THEN CHOOSE i \in 1..Len(s) : s[i] = "/" /\ \A j \in (i + 1)..Len(s) : s[j] # "/"
    ELSE 0

\* filepath.Dir
Dir(s) == Clean(SubSeq(s, 1, LastSlash(s)))

RECURSIVE TrimTrailingSlashes(_)
TrimTrailingSlashes(s) ==
    IF s # <<>> /\ s[Len(s)] = "/" THEN TrimTrailingSlashes(SubSeq(s, 1, Len(s) - 1)) ELSE s

\* filepath.Base
Base(s) ==
    IF s = <<>> THEN Dot
    ELSE LET t == TrimTrailingSlashes(s)
             b == SubSeq(t, LastSlash(t) + 1, Len(t))
         IN  IF b = <<>> THEN Slash ELSE b

CommonLen(b, t) ==
    CHOOSE k \in 0..Len(b) :
        /\ k <= Len(t)
        /\ \A i \in 1..k : b[i] = t[i]
        /\ (k = Len(b) \/ k = Len(t) \/ b[k + 1] # t[k + 1])

\* filepath.Rel(base, targ): [err, path]
Rel(basepath, targpath) ==
    LET base == Clean(basepath)
        targ == Clean(targpath)
        bc == IF base = Dot THEN <<>> ELSE Elements(base)
        tc == IF targ = Dot THEN <<>> ELSE Elements(targ)
        k == CommonLen(bc, tc)
        brest == SubSeq(bc, k + 1, Len(bc))
        trest == SubSeq(tc, k + 1, Len(tc))
    IN  IF targ = base THEN [err |-> FALSE, path |-> Dot]
        ELSE IF IsAbs(base) # IsAbs(targ) THEN [err |-> TRUE, path |-> <<>>]
        ELSE IF brest # <<>> /\ brest[1] = DotDot THEN [err |-> TRUE, path |-> <<>>]
        ELSE [err |-> FALSE,
              path |-> JoinSep([i \in 1..Len(brest) |-> DotDot] \o trest)]

(***************************************************************************)
(* The host filesystem.  A location is the sequence of the names from the  *)
(* root down; a node is a directory, a regular file with its content, or a *)
(* symbolic link with its target string.                                   *)
(***************************************************************************)
Root == <<>>

DirNode == [kind |-> "dir", target |-> <<>>, data |-> <<>>]
FileNode(d) == [kind |-> "file", target |-> <<>>, data |-> d]
LinkNode(t) == [kind |-> "symlink", target |-> t, data |-> <<>>]

\* how many symbolic links one path resolution follows before ELOOP
MaxSymlinks == 3

IsUnder(loc, dir) == Len(dir) <= Len(loc) /\ SubSeq(loc, 1, Len(dir)) = dir

\* The kernel's path walk from directory cur over the names rest.
\* st = "found": loc exists; "absent": every parent exists and loc does not;
\* "error": ENOENT / ENOTDIR / ELOOP on the way.
RECURSIVE PathWalk(_, _, _, _, _)
PathWalk(f, cur, rest, follow, fuel) ==
    IF rest = <<>> THEN [st |-> "found", loc |-> cur]
    ELSE IF f[cur].kind # "dir" THEN [st |-> "error", loc |-> cur]
    ELSE LET c == Head(rest)
             more == Tail(rest)
             nxt == Append(cur, c)
         IN  IF c = Dot THEN PathWalk(f, cur, more, follow, fuel)
             ELSE IF c = DotDot
                  THEN PathWalk(f, IF cur = Root THEN Root ELSE SubSeq(cur, 1, Len(cur) - 1),
                                more, follow, fuel)
             ELSE IF nxt \notin DOMAIN f
                  THEN IF more = <<>> THEN [st |-> "absent", loc |-> nxt]
                       ELSE [st |-> "error", loc |-> nxt]
             ELSE IF f[nxt].kind = "symlink" /\ (more # <<>> \/ follow)
                  THEN IF fuel = 0 THEN [st |-> "error", loc |-> nxt]
                       ELSE PathWalk(f, IF IsAbs(f[nxt].target) THEN Root ELSE cur,
                                     Elements(f[nxt].target) \o more, follow, fuel - 1)
             ELSE PathWalk(f, nxt, more, follow, fuel)

\* os.Stat (follows a final symbolic link) and os.Lstat (does not)
Stat(f, path) == PathWalk(f, Root, Elements(path), TRUE, MaxSymlinks)
Lstat(f, path) == PathWalk(f, Root, Elements(path), FALSE, MaxSymlinks)

Exists(f, path) == Stat(f, path).st = "found"

\* the outcome of a filesystem call: the filesystem after it, whether it
\* failed, and the physical locations it created or wrote
FsOk(f, w) == [fs |-> f, err |-> FALSE, wrote |-> w]
FsErr(f, w) == [fs |-> f, err |-> TRUE, wrote |-> w]

Put(f, loc, node) == [l \in (DOMAIN f) \cup {loc} |-> IF l = loc THEN node ELSE f[l]]

\* a call that creates node at the place r = Lstat(path) when nothing is there
CreateAt(f, r, node) ==
    IF r.st = "absent" THEN FsOk(Put(f, r.loc, node), {r.loc}) ELSE FsErr(f, {})

\* os.Mkdir
Mkdir(f, path) == CreateAt(f, Lstat(f, path), DirNode)

\* after r, a further call m on r.fs
FsThen(r, m) == [fs |-> m.fs, err |-> m.err, wrote |-> r.wrote \cup m.wrote]

\* os.MkdirAll: nothing to do on a directory; otherwise the parent first,
\* then Mkdir of the path itself
RECURSIVE MkdirAll(_, _)
MkdirPath(par, path) == IF par.err THEN par ELSE FsThen(par, Mkdir(par.fs, path))
MkdirAllStat(f, path, s) ==
    IF s.st = "found"
    THEN IF f[s.loc].kind = "dir" THEN FsOk(f, {}) ELSE FsErr(f, {})
    ELSE MkdirPath(IF Len(Elements(path)) > 1 THEN MkdirAll(f, Dir(path)) ELSE FsOk(f, {}),
                   path)
MkdirAll(f, path) == MkdirAllStat(f, path, Stat(f, path))

\* os.Symlink(target, path)
Symlink(f, target, path) == CreateAt(f, Lstat(f, path), LinkNode(target))

\* os.OpenFile(path, O_CREATE|O_TRUNC|O_WRONLY) followed by io.Copy of data
\* and Close: r = Stat(path), so a final symbolic link is followed
WriteAt(f, r, data) ==
    IF r.st = "absent" \/ (r.st = "found" /\ f[r.loc].kind = "file")
    THEN FsOk(Put(f, r.loc, FileNode(data)), {r.loc})
    ELSE FsErr(f, {})
WriteFile(f, path, data) == WriteAt(f, Stat(f, path), data)

\* os.RemoveAll(path): the node at path (a final link is not followed) and all below it
RemoveAt(f, r) ==
    IF r.st = "found" /\ r.loc # Root
    THEN [l \in {x \in DOMAIN f : ~IsUnder(x, r.loc)} |-> f[l]]
    ELSE f
\* (the path is resolved once, then the nodes below it are dropped)
RemoveAll(f, path) == CHOOSE g \in {RemoveAt(f, r) : r \in {Lstat(f, path)}} : TRUE

(***************************************************************************)
(* pkg/archive: extraction                                                 *)
(***************************************************************************)
\* secureJoin(baseDir, name): [err, path]
secureJoinRel(joined, rel) ==
    IF rel.err THEN [err |-> TRUE, path |-> <<>>]
    ELSE IF HasPrefix(rel.path, DotDot) \/ IsAbs(rel.path) THEN [err |-> TRUE, path |-> <<>>]
    ELSE [err |-> FALSE, path |-> joined]
secureJoinJoined(baseDir, joined) == secureJoinRel(joined, Rel(baseDir, joined))
secureJoinClean(baseDir, cleanName) ==
    IF cleanName = Dot \/ cleanName = <<>> THEN [err |-> FALSE, path |-> baseDir]
    ELSE secureJoinJoined(baseDir, Join(baseDir, cleanName))
secureJoin(baseDir, name) == secureJoinClean(baseDir, Clean(TrimPrefix(name, Slash)))

\* tar header type flags
TypeReg == "reg"
TypeDir == "dir"
TypeSymlink == "symlink"
TypeOther == "other"

Header(name, typeflag, linkname, data) ==
    [name |-> name, typeflag |-> typeflag, linkname |-> linkname, data |-> data]

\* One iteration of ExtractArchive's loop for the header hdr:
\* [fs, err ("" | "traversal" | "io"), wrote]
ExtractResult(r) == [fs |-> r.fs, err |-> IF r.err THEN "io" ELSE "", wrote |-> r.wrote]
\* a symlink or regular-file entry, parent being MkdirAll(filepath.Dir(destPath))
ExtractInto(hdr, destPath, parent) ==
    IF parent.err THEN ExtractResult(parent)
    ELSE IF hdr.typeflag = TypeSymlink
         THEN ExtractResult(FsThen(parent, Symlink(parent.fs, hdr.linkname, destPath)))
    ELSE ExtractResult(FsThen(parent, WriteFile(parent.fs, destPath, hdr.data)))
ExtractAt(f, hdr, sj) ==
    IF sj.err THEN [fs |-> f, err |-> "traversal", wrote |-> {}]
    ELSE IF hdr.typeflag = TypeDir THEN ExtractResult(MkdirAll(f, sj.path))
    ELSE IF hdr.typeflag \in {TypeSymlink, TypeReg}
         THEN ExtractInto(hdr, sj.path, MkdirAll(f, Dir(sj.path)))
    ELSE [fs |-> f, err |-> "", wrote |-> {}]
ExtractEntry(f, destDir, hdr) == ExtractAt(f, hdr, secureJoin(destDir, hdr.name))

(***************************************************************************)
(* pkg/archive: creation                                                   *)
(***************************************************************************)
ArchiveSource(path, destPath) == [Path |-> path, DestPath |-> destPath]

\* the path string of a location
PathOf(loc) == Slash \o JoinSep(loc)

\* the entries of directory loc in the order os.ReadDir returns them (by name)
Children(f, loc) == {l \in DOMAIN f : Len(l) = Len(loc) + 1 /\ IsUnder(l, loc)}
RECURSIVE SortedLocs(_)
SortedLocs(S) ==
    IF S = {} THEN <<>>
    ELSE LET m == CHOOSE x \in S : \A y \in S \ {x} : StrLess(x[Len(x)], y[Len(y)])
         IN  <<m>> \o SortedLocs(S \ {m})

\* filepath.WalkDir: the locations visited, a directory before its entries,
\* symbolic links not followed
RECURSIVE WalkDir(_, _)
RECURSIVE WalkDirs(_, _)
WalkDirs(f, kids) ==
    IF kids = <<>> THEN <<>> ELSE WalkDir(f, Head(kids)) \o WalkDirs(f, Tail(kids))
WalkDir(f, loc) ==
    <<loc>> \o (IF f[loc].kind = "dir" THEN WalkDirs(f, SortedLocs(Children(f, loc))) ELSE <<>>)

\* writeFileOrSymlinkToTar, and the directory header of the walk callback
HeaderFor(node, nameInTar) ==
    IF node.kind = "dir" THEN Header(nameInTar \o Slash, TypeDir, <<>>, <<>>)
    ELSE IF node.kind = "symlink" THEN Header(nameInTar, TypeSymlink, node.target, <<>>)
    ELSE Header(nameInTar, TypeReg, <<>>, node.data)

\* the walk callback: the header of curr under the source directory
WalkHeader(f, srcPath, rootName, curr) ==
    HeaderFor(f[curr], Join(rootName, Rel(srcPath, PathOf(curr)).path))

WalkHeaders(f, srcPath, rootName, visited) ==
    [i \in 1..Len(visited) |-> WalkHeader(f, srcPath, rootName, visited[i])]

\* addSourceToTar, info = Lstat(src.Path): [err, hdrs]
AddSourceInfo(f, src, info, rootName) ==
    IF info.st # "found" THEN [err |-> TRUE, hdrs |-> <<>>]
    ELSE IF f[info.loc].kind = "dir"
         THEN [err |-> FALSE,
               hdrs |-> WalkHeaders(f, src.Path, rootName, WalkDir(f, info.loc))]
    ELSE [err |-> FALSE, hdrs |-> <<HeaderFor(f[info.loc], rootName)>>]
addSourceToTar(f, src) ==
    AddSourceInfo(f, src, Lstat(f, src.Path),
                  IF src.DestPath = <<>> THEN Base(src.Path) ELSE src.DestPath)

\* the loop of CreateArchive over the sources: the headers written until a
\* source fails
RECURSIVE AddSources(_, _)
AddAfter(one, more) == [err |-> more.err, hdrs |-> one.hdrs \o more.hdrs]
AddNext(one, f, rest) == IF one.err THEN one ELSE AddAfter(one, AddSources(f, rest))
AddSources(f, sources) ==
    IF sources = <<>> THEN [err |-> FALSE, hdrs |-> <<>>]
    ELSE AddNext(addSourceToTar(f, Head(sources)), f, Tail(sources))

\* CreateArchive(sources, dest).  stopAt is the number of headers written
\* before the context is cancelled or a read or write fails; a stopAt of at
\* least the number of headers is a run nothing interrupts.  [fs, err]
CreateWritten(f, dest, added, stopAt) ==
    [fs |-> WriteFile(f, dest,
                      SubSeq(added.hdrs, 1,
                             IF stopAt < Len(added.hdrs) THEN stopAt
                             ELSE Len(added.hdrs))).fs,
     err |-> added.err \/ stopAt < Len(added.hdrs)]
\* created = os.Create(dest)
CreateOpened(created, sources, dest, stopAt) ==
    IF created.err THEN [fs |-> created.fs, err |-> TRUE]
    ELSE CreateWritten(created.fs, dest, AddSources(created.fs, sources), stopAt)
CreateInDir(f, parent, sources, dest, stopAt) ==
    IF parent.err THEN [fs |-> parent.fs, err |-> TRUE]
    ELSE CreateOpened(WriteFile(parent.fs, dest, <<>>), sources, dest, stopAt)

\* the points at which a run of CreateArchive can be interrupted: after any
\* number of headers, or not at all (the last value); a context cancelled
\* before the call stops it at its first check
CreateStops(f, sources, cancelled) ==
    IF cancelled THEN {0} ELSE 0..Len(AddSources(f, sources).hdrs)

\* os.Open(archivePath) and the tar reader over it: [err, hdrs]
OpenArchiveAt(f, r) ==
    IF r.st = "found" /\ f[r.loc].kind = "file"
    THEN [err |-> FALSE, hdrs |-> f[r.loc].data]
    ELSE [err |-> TRUE, hdrs |-> <<>>]
OpenArchive(f, path) == OpenArchiveAt(f, Stat(f, path))
CreateArchive(f, sources, dest, stopAt) ==
    IF sources = <<>> THEN [fs |-> f, err |-> TRUE]
    ELSE CreateInDir(f, MkdirAll(f, Dir(dest)), sources, dest, stopAt)


(***************************************************************************)
(* TarArchiveHandler.ExtractArchive as a process: one action per loop      *)
(* iteration, so that cancellation and a failing entry can fall between    *)
(* two entries.                                                            *)
(***************************************************************************)
TarIdle ==
    [op |-> "idle", pc |-> "idle", input |-> <<>>, n |-> 0, err |-> "",
     wrote |-> {}, last |-> <<>>, dest |-> <<>>]

\* the extraction destination and a directory beside it
DestDir == <<"/", "d">>
OutsideDir == <<"/", "o">>

\* the longest archive the extraction specifications read
MaxEntries == 3

\* ExtractArchive up to the loop: MkdirAll(destDir), open the archive
ExtractStarted(m, destDir, ar) ==
    /\ fs' = m.fs
    /\ tar' = [op |-> "extract", pc |-> IF m.err \/ ar.err THEN "done" ELSE "loop",
               input |-> ar.hdrs, n |-> 0, err |-> IF m.err \/ ar.err THEN "io" ELSE "",
               wrote |-> m.wrote, last |-> <<>>, dest |-> destDir]
    /\ UNCHANGED <<rst, ctxDone, drv, ord, eng>>
ExtractStart(destDir, ar) ==
    /\ tar.op = "idle"
    /\ ExtractStarted(MkdirAll(fs, destDir), destDir, ar)

\* the loop's select on ctx.Done()
ExtractCancelled ==
    /\ tar.op = "extract" /\ tar.pc = "loop"
    /\ ctxDone
    /\ tar' = [tar EXCEPT !.pc = "done", !.err = "cancelled"]
    /\ UNCHANGED <<rst, fs, ctxDone, drv, ord, eng>>

\* one iteration on the header hdr, rest being what is left of the archive
ExtractStepped(r, hdr, rest) ==
    /\ fs' = r.fs
    /\ tar' = [tar EXCEPT !.pc = IF r.err = "" THEN "loop" ELSE "done",
                          !.input = rest, !.n = tar.n + 1, !.err = r.err,
                          !.wrote = tar.wrote \cup r.wrote, !.last = hdr.name]
    /\ UNCHANGED <<rst, ctxDone, drv, ord, eng>>
ExtractStep(hdr, rest) ==
    /\ tar.op = "extract" /\ tar.pc = "loop"
    /\ ~ctxDone
    /\ ExtractStepped(ExtractEntry(fs, tar.dest, hdr), hdr, rest)

\* tr.Next() returned io.EOF
ExtractEOF ==
    /\ tar.op = "extract" /\ tar.pc = "loop"
    /\ ~ctxDone
    /\ tar.input = <<>>
    /\ tar' = [tar EXCEPT !.pc = "done"]
    /\ UNCHANGED <<rst, fs, ctxDone, drv, ord, eng>>

\* the next header of an archive file
ExtractNext ==
    /\ tar.input # <<>>
    /\ ExtractStep(Head(tar.input), Tail(tar.input))

\* the caller cancels the context
Cancel ==
    /\ ~ctxDone
    /\ ctxDone' = TRUE
    /\ UNCHANGED <<rst, fs, tar, drv, ord, eng>>

(***************************************************************************)
(* Extraction of an arbitrary archive: the headers are whatever the        *)
(* archive's author wrote, drawn as they are read.                         *)
(***************************************************************************)
HdrNames ==
    { <<"a">>, <<"/", "b">>, <<"a", "/", "b">>, <<".", ".", "/", "o">>,
      <<".", ".", "a">>, <<"a", "/", ".", ".", "/", ".", ".", "/", "o">> }

LinkNames == { <<"/", "o">>, <<".", ".">>, <<"b">> }

AnyHeaders ==
    { Header(nm, tf, <<>>, <<"x">>) : nm \in HdrNames, tf \in {TypeReg, TypeDir, TypeOther} }
    \cup { Header(nm, TypeSymlink, ln, <<>>) : nm \in HdrNames, ln \in LinkNames }

InitFs == (Root :> DirNode) @@ (Elements(OutsideDir) :> DirNode)

InitExtract ==
    /\ rst = <<>>
    /\ fs = InitFs
    /\ ctxDone = FALSE
    /\ tar = TarIdle
    /\ drv = <<>>
    /\ ord = <<>>
    /\ eng = <<>>

ExtractBegin == ExtractStart(DestDir, [err |-> FALSE, hdrs |-> <<>>])

ExtractAny ==
    /\ tar.n < MaxEntries
    /\ tar.input = <<>>
    /\ drv = <<>>
    /\ \E hdr \in AnyHeaders : ExtractStep(hdr, <<>>)

NextExtract ==
    \/ ExtractBegin
    \/ ExtractAny
    \/ ExtractEOF
    \/ ExtractCancelled
    \/ Cancel

SpecExtract == InitExtract /\ [][NextExtract]_vars

\* the name of a header, normalised by hand: the location it denotes below dest
NameLoc(dest, name) == CleanFold(<<>>, Elements(dest) \o Split(name), TRUE)

\* the name steps above dest on the way (a ".." with nothing left to cancel)
RECURSIVE Escapes(_, _)
Escapes(depth, comps) ==
    IF comps = <<>> THEN FALSE
    ELSE IF Head(comps) = <<>> \/ Head(comps) = Dot THEN Escapes(depth, Tail(comps))
    ELSE IF Head(comps) = DotDot
         THEN depth = 0 \/ Escapes(depth - 1, Tail(comps))
    ELSE Escapes(depth + 1, Tail(comps))

ResolvesOutside(name) == Escapes(0, Split(name))

\* C1: extraction never creates or writes a node outside destinationDir, not
\* even through a symbolic link an earlier entry created, and an entry whose
\* name resolves outside destinationDir ends the extraction with the
\* path-traversal error.
C1_ExtractStaysInside ==
    tar.op = "extract" =>
        /\ \A l \in tar.wrote : IsUnder(l, Elements(tar.dest))
        /\ (tar.n > 0 /\ ResolvesOutside(tar.last)) => tar.err = "traversal"

(***************************************************************************)
(* Round trip: CreateArchive of a source directory, then ExtractArchive of *)
(* the archive into an empty directory (TestTarArchive_RoundTrip).         *)
(***************************************************************************)
SrcDir == <<"/", "s">>
ArchivePath == <<"/", "t", "/", "x">>

NameA == <<"a">>
NameB == <<"b">>
NameDots == <<".", ".", "a">>

\* what the source directory holds: each choice is a set of (location below
\* the source directory, node) pairs
TopA == { {}, {<< <<NameA>>, FileNode(<<"x">>) >>}, {<< <<NameA>>, DirNode >>} }
SubAA == { {}, {<< <<NameA, NameA>>, FileNode(<<"x", "y">>) >>},
           {<< <<NameA, NameA>>, LinkNode(<<".", ".", "/", "b">>) >>},
           {<< <<NameA, NameA>>, DirNode >>} }
SubAB == { {}, {<< <<NameA, NameB>>, FileNode(<<>>) >>} }
TopB == { {}, {<< <<NameB>>, LinkNode(NameA) >>}, {<< <<NameB>>, FileNode(<<"y">>) >>} }
TopDots == { {}, {<< <<NameDots>>, FileNode(<<"x">>) >>} }

SrcItems(a, aa, ab, b, d) ==
    a \cup b \cup d \cup (IF a = {<< <<NameA>>, DirNode >>} THEN aa \cup ab ELSE {})

\* the filesystem with the source directory holding items
FsWith(items) ==
    [l \in {Root, Elements(SrcDir)} \cup {Elements(SrcDir) \o it[1] : it \in items} |->
        IF l \in {Root, Elements(SrcDir)} THEN DirNode
        ELSE (CHOOSE it \in items : Elements(SrcDir) \o it[1] = l)[2]]

\* DestPath of the source: none (the base name is used), ".", or a name
DestPaths == { <<>>, Dot, <<"r">> }

InitRoundTrip ==
    /\ rst = <<>>
    /\ \E a \in TopA, aa \in SubAA, ab \in SubAB, b \in TopB, d \in TopDots :
          fs = FsWith(SrcItems(a, aa, ab, b, d))
    /\ ctxDone = FALSE
    /\ tar = TarIdle
    /\ drv = [pc |-> "start", err |-> FALSE, destPath |-> <<>>]
    /\ ord = <<>>
    /\ eng = <<>>

RtCreated(r, dp) ==
    /\ fs' = r.fs
    /\ drv' = [pc |-> "created", err |-> r.err, destPath |-> dp]
    /\ UNCHANGED <<rst, ctxDone, tar, ord, eng>>

\* h.CreateArchive(ctx, []ArchiveSource{{Path: srcDir, DestPath: dp}}, archivePath)
RtCreate ==
    /\ drv.pc = "start"
    /\ \E dp \in DestPaths :
       \E stopAt \in CreateStops(fs, <<ArchiveSource(SrcDir, dp)>>, ctxDone) :
          RtCreated(CreateArchive(fs, <<ArchiveSource(SrcDir, dp)>>, ArchivePath, stopAt), dp)

\* h.ExtractArchive(ctx, archivePath, destDir)
RtExtract ==
    /\ drv.pc = "created"
    /\ ~drv.err
    /\ ExtractStart(DestDir, OpenArchive(fs, ArchivePath))

NextRoundTrip ==
    \/ RtCreate
    \/ RtExtract
    \/ ExtractNext
    \/ ExtractEOF
    \/ ExtractCancelled
    \/ Cancel

SpecRoundTrip == InitRoundTrip /\ [][NextRoundTrip]_vars

\* where the source directory itself lands below the destination
RootLoc(dp) ==
    Elements(DestDir) \o
    (IF Clean(IF dp = <<>> THEN Base(SrcDir) ELSE dp) = Dot THEN <<>>
     ELSE Elements(Clean(IF dp = <<>> THEN Base(SrcDir) ELSE dp)))

Below(loc, dir) == SubSeq(loc, Len(dir) + 1, Len(loc))

\* the tree below dst is the tree below src: the same relative locations,
\* each with the same kind, content (so size) and link target
SameTree(f, src, dst) ==
    /\ \A l \in DOMAIN f : IsUnder(l, src) =>
          /\ dst \o Below(l, src) \in DOMAIN f
          /\ f[dst \o Below(l, src)] = f[l]
    /\ \A l \in DOMAIN f : IsUnder(l, dst) => src \o Below(l, dst) \in DOMAIN f

\* C2: CreateArchive of a source tree followed by ExtractArchive into an
\* empty directory succeeds and yields the same tree: the same paths, kinds,
\* file sizes and contents, and link targets.
C2_RoundTrip ==
    (drv # <<>> /\ drv.pc = "created" /\ ~drv.err /\ ~ctxDone
        /\ tar.op = "extract" /\ tar.pc = "done") =>
        /\ tar.err = ""
        /\ SameTree(fs, Elements(SrcDir), RootLoc(drv.destPath))
        /\ \A l \in DOMAIN fs : IsUnder(l, Elements(DestDir)) =>
              IsUnder(l, RootLoc(drv.destPath)) \/ IsUnder(RootLoc(drv.destPath), l)

(***************************************************************************)
(* pkg/compose: OrderFromComposeYAML                                       *)
(***************************************************************************)
SvcA == <<"A">>
SvcB == <<"B">>
SvcC == <<"C">>
ServiceNames == {SvcA, SvcB, SvcC}
MaxDeps == 2

\* sort.Strings
RECURSIVE InsertSorted(_, _)
InsertSorted(x, s) ==
    IF s = <<>> THEN <<x>>
    ELSE IF StrLess(Head(s), x) THEN <<Head(s)>> \o InsertSorted(x, Tail(s))
    ELSE <<x>> \o s
RECURSIVE SortStrings(_)
SortStrings(s) == IF s = <<>> THEN <<>> ELSE InsertSorted(Head(s), SortStrings(Tail(s)))

\* the orders in which a range over a Go map with key set S can visit the keys
Iterations(S) ==
    {p \in [1..Cardinality(S) -> S] : \A i, j \in 1..Cardinality(S) : i # j => p[i] # p[j]}

\* the compose documents: the declared services, what each depends on, and
\* whether depends_on is written as a mapping or as a sequence; a sequence does
\* not decode into the field of type map[string]any
ComposeFiles ==
    {[services |-> S, dependsOn |-> d, form |-> f] :
        S \in SUBSET ServiceNames,
        d \in [ServiceNames -> {D \in SUBSET ServiceNames : Cardinality(D) <= MaxDeps}],
        f \in {"map", "list"}}
ValidComposeFile(cf) ==
    /\ \A n \in ServiceNames \ cf.services : cf.dependsOn[n] = {}
    /\ cf.form = "list" => \E n \in cf.services : cf.dependsOn[n] # {}

OrderIdle(cf) ==
    [pc |-> "start", cf |-> cf, err |-> FALSE, names |-> <<>>,
     adj |-> [d \in ServiceNames |-> <<>>], indeg |-> [n \in ServiceNames |-> 0],
     q |-> <<>>, order |-> <<>>, result |-> <<>>]

\* yaml.Unmarshal fails: return nil, nil
OrderUnmarshalError ==
    /\ ord.pc = "start"
    /\ ord.cf.form = "list"
    /\ ord' = [ord EXCEPT !.pc = "done", !.err = TRUE]
    /\ UNCHANGED <<rst, fs, ctxDone, tar, drv, eng>>

\* names, adjacency, in-degree and the sorted queue of the ready services
OrderBuilt(cf, namesIter, adjIter, seedIter) ==
    [pc |-> "loop", cf |-> cf, err |-> FALSE, names |-> namesIter,
     adj |-> [d \in ServiceNames |-> SelectSeq(adjIter, LAMBDA n : d \in cf.dependsOn[n])],
     indeg |-> [n \in ServiceNames |-> Cardinality(cf.dependsOn[n])],
     q |-> SortStrings(SelectSeq(seedIter, LAMBDA n : cf.dependsOn[n] = {})),
     order |-> <<>>, result |-> <<>>]
OrderBuild ==
    /\ ord.pc = "start"
    /\ ord.cf.form = "map"
    /\ \E namesIter \in Iterations(ord.cf.services),
          adjIter \in Iterations(ord.cf.services),
          seedIter \in Iterations(ord.cf.services) :
          ord' = OrderBuilt(ord.cf, namesIter, adjIter, seedIter)
    /\ UNCHANGED <<rst, fs, ctxDone, tar, drv, eng>>

EnqueueUnsorted(q, nb) == Append(q, nb)
\* q = append(q, nb); sort.Strings(q)
Enqueue(q, nb) == SortStrings(Append(q, nb))

\* for _, nb := range adj[cur]: [indeg, q]
RECURSIVE Relax(_, _, _)
RelaxOne(indeg, q, nb, rest) ==
    Relax(indeg, IF indeg[nb] = 0 THEN Enqueue(q, nb) ELSE q, rest)
Relax(indeg, q, nbs) ==
    IF nbs = <<>> THEN [indeg |-> indeg, q |-> q]
    ELSE RelaxOne([indeg EXCEPT ![Head(nbs)] = @ - 1], q, Head(nbs), Tail(nbs))

\* one iteration of the loop of Kahn's algorithm on the locals o
OrderPopped(o, cur, r) ==
    [o EXCEPT !.order = Append(@, cur), !.indeg = r.indeg, !.q = r.q]
OrderStepped(o) == OrderPopped(o, Head(o.q), Relax(o.indeg, Tail(o.q), o.adj[Head(o.q)]))
OrderPop ==
    /\ ord.pc = "loop"
    /\ ord.q # <<>>
    /\ ord' = OrderStepped(ord)
    /\ UNCHANGED <<rst, fs, ctxDone, tar, drv, eng>>

OrderResultKeepPartial(order, names) == order
\* the fallback to the sorted names
OrderResult(order, names) ==
    IF Len(order) # Len(names) THEN SortStrings(names) ELSE order

OrderReturn ==
    /\ ord.pc = "loop"
    /\ ord.q = <<>>
    /\ ord' = [ord EXCEPT !.pc = "done", !.result = OrderResult(ord.order, ord.names)]
    /\ UNCHANGED <<rst, fs, ctxDone, tar, drv, eng>>

\* the whole call, as the engine makes it: [order, names]
RECURSIVE OrderLoop(_)
OrderLoop(o) == IF o.q = <<>> THEN o ELSE OrderLoop(OrderStepped(o))
OrderReturned(o) == [order |-> OrderResult(o.order, o.names), names |-> o.names]
OrderFromComposeYAML(cf, namesIter, adjIter) ==
    IF cf.form = "list" THEN [order |-> <<>>, names |-> <<>>]
    ELSE OrderReturned(OrderLoop(OrderBuilt(cf, namesIter, adjIter, adjIter)))

InitOrder ==
    /\ rst = <<>>
    /\ fs = InitFs
    /\ ctxDone = FALSE
    /\ tar = TarIdle
    /\ drv = <<>>
    /\ eng = <<>>
    /\ \E cf \in ComposeFiles : ValidComposeFile(cf) /\ ord = OrderIdle(cf)

NextOrder ==
    \/ OrderUnmarshalError
    \/ OrderBuild
    \/ OrderPop
    \/ OrderReturn

SpecOrder == InitOrder /\ [][NextOrder]_vars

\* seq lists every service after all the services it depends on
IsTopological(seq, cf) ==
    \A i \in 1..Len(seq) : \A d \in cf.dependsOn[seq[i]] : \E j \in 1..(i - 1) : seq[j] = d
\* the graph has no cycle and no reference to an undeclared service: some
\* arrangement of the declared services is topological
Orderable(cf) == \E p \in Iterations(cf.services) : IsTopological(p, cf)
SeqRange(seq) == {seq[i] : i \in 1..Len(seq)}
Smallest(S) == CHOOSE x \in S : \A y \in S \ {x} : StrLess(x, y)
Ready(cf, placed) ==
    {n \in cf.services \ SeqRange(placed) : cf.dependsOn[n] \subseteq SeqRange(placed)}
\* Kahn's algorithm removing the smallest ready service, as a function of the graph
RECURSIVE KahnSmallest(_, _)
KahnSmallest(cf, placed) ==
    IF Ready(cf, placed) = {} THEN placed
    ELSE KahnSmallest(cf, Append(placed, Smallest(Ready(cf, placed))))
IsSortedListOf(seq, S) ==
    /\ Len(seq) = Cardinality(S)
    /\ SeqRange(seq) = S
    /\ \A i, j \in 1..Len(seq) : i < j => StrLess(seq[i], seq[j])
ChainABC ==
    [services |-> ServiceNames,
     dependsOn |-> (SvcA :> {}) @@ (SvcB :> {SvcA}) @@ (SvcC :> {SvcB}),
     form |-> "map"]
CycleAB ==
    [services |-> {SvcA, SvcB},
     dependsOn |-> (SvcA :> {SvcB}) @@ (SvcB :> {SvcA}) @@ (SvcC :> {}),
     form |-> "map"]
OrderDone == ord # <<>> /\ ord.pc = "done"

C5_OrderTotal ==
    OrderDone =>
        /\ Len(ord.result) = Cardinality(ord.cf.services)
        /\ SeqRange(ord.result) = ord.cf.services

(***************************************************************************)
(* pkg/backup: names, requests and the docker client's answers             *)
(***************************************************************************)
TempDir == <<"/", "t", "m", "p">>  \* os.TempDir()
Cwd == <<"/", "o">>  \* os.Getwd()
ContainerJSONName == <<"c", "o", "n", "t", "a", "i", "n", "e", "r", ".", "j", "s", "o", "n">>
FilesystemTarName == <<"f", "i", "l", "e", "s", "y", "s", "t", "e", "m", ".", "t", "a", "r">>
MetadataName == <<"m", "e", "t", "a", "d", "a", "t", "a", ".", "j", "s", "o", "n">>
ImageTarName == <<"i", "m", "a", "g", "e", ".", "t", "a", "r">>
VolumesName == <<"v", "o", "l", "u", "m", "e", "s">>
NetworksName == <<"n", "e", "t", "w", "o", "r", "k", "s">>
VolumeConfigsName == <<"v", "o", "l", "u", "m", "e", "_", "c", "o", "n", "f", "i", "g", "s", ".", "j", "s", "o", "n">>
NetworkConfigsName == <<"n", "e", "t", "w", "o", "r", "k", "_", "c", "o", "n", "f", "i", "g", "s", ".", "j", "s", "o", "n">>
TarGzSuffix == <<".", "t", "a", "r", ".", "g", "z">>
BindPrefix == <<"b", "i", "n", "d", "_">>
BackupSuffix == <<"_", "b", "a", "c", "k", "u", "p", ".", "t", "a", "r", ".", "g", "z">>
ScratchPrefix == <<"d", "o", "c", "k", "e", "r", "b", "a", "c", "k", "u", "p", "_">>
DefaultSafeName == <<"c", "o", "n", "t", "a", "i", "n", "e", "r">>
NameWeb == <<"w", "e", "b">>
NameDb == <<"d", "b">>
IdWeb == <<"c", "1">>
IdDb == <<"c", "2">>
IdUnit == <<"c", "3">>
IdA == <<"c", "4">>
IdB == <<"c", "5">>
NameUnderscored == <<"b", "l", "o", "g", "_", "A", "_", "1">>
NameHyphened == <<"b", "l", "o", "g", "-", "B", "-", "1">>
VolName == <<"d", "a", "t", "a">>
VolSource == <<"/", "v", "/", "d", "a", "t", "a">>
BindSource == <<"/", "h", "/", "b">>
BindSourceK == <<"/", "k", "/", "b">>
VolOddName == <<"a", ":", "b">>
VolOddSource == <<"/", "v", "/", "a", "b">>
VolBindName == <<"b", "i", "n", "d", "_", "b">>
VolBindSource == <<"/", "v", "/", "b", "b">>
OutFile == <<"/", "o", "/", "x", ".", "t", "g", "z">>

Digits == <<"0", "1", "2", "3", "4", "5", "6", "7", "8", "9">>
Digit(k) == <<Digits[k + 1]>>

\* indexOf(s, sub): the 0-based index of the first occurrence, -1 if none
RECURSIVE indexFrom(_, _, _)
indexFrom(s, sub, i) ==
    IF i + Len(sub) > Len(s) THEN 0 - 1
    ELSE IF SubSeq(s, i + 1, i + Len(sub)) = sub THEN i
    ELSE indexFrom(s, sub, i + 1)
indexOf(s, sub) == IF Len(sub) = 0 THEN 0 ELSE indexFrom(s, sub, 0)
\* strings.Contains
Contains(s, sub) == indexOf(s, sub) >= 0
\* strings.Split(s, sep) for a separator of one character
RECURSIVE SplitOn(_, _)
SplitOn(s, sep) ==
    IF \A i \in 1..Len(s) : s[i] # sep THEN <<s>>
    ELSE LET k == CHOOSE i \in 1..Len(s) : s[i] = sep /\ \A j \in 1..(i - 1) : s[j] # sep
         IN  <<SubSeq(s, 1, k - 1)>> \o SplitOn(SubSeq(s, k + 1, Len(s)), sep)

RECURSIVE stringReplaceAll(_, _, _)
stringReplaceAt(s, old, new, idx) ==
    IF idx < 0 THEN s
    ELSE stringReplaceAll(SubSeq(s, 1, idx) \o new \o SubSeq(s, idx + Len(old) + 1, Len(s)),
                          old, new)
stringReplaceAll(s, old, new) == stringReplaceAt(s, old, new, indexOf(s, old))

replacer == << <<"/">>, <<"\\">>, <<" ">>, <<":">>, <<"\t">> >>
RECURSIVE safeNameFrom(_, _)
safeNameFrom(s, olds) ==
    IF olds = <<>> THEN s
    ELSE safeNameFrom(stringReplaceAll(s, Head(olds), <<"-">>), Tail(olds))
safeName(name) == IF name = <<>> THEN DefaultSafeName ELSE safeNameFrom(name, replacer)

\* docker.Mount as docker inspect reports it
Mount(type, name, source) == [Type |-> type, Name |-> name, Source |-> source]
MountVol == Mount("volume", VolName, VolSource)
MountBind == Mount("bind", <<>>, BindSource)
MountVolNoSource == Mount("volume", VolName, <<>>)
MountLists == {<<>>, <<MountVol>>, <<MountBind>>, <<MountVol, MountBind>>, <<MountVolNoSource>>}
\* a second bind mount of the basename b, a volume whose name safeName
\* rewrites, and a volume called bind_b; the mounts of the unit c3
MountBindK == Mount("bind", <<>>, BindSourceK)
MountVolOdd == Mount("volume", VolOddName, VolOddSource)
MountVolBind == Mount("volume", VolBindName, VolBindSource)
MountCases ==
    { <<MountVol, MountBind>>, <<MountBind, MountBindK>>, <<MountBind, MountVolBind>>,
      <<MountVolOdd>> }

\* the output of docker inspect: the bytes of one JSON value, a JSON array of
\* container objects (the docker CLI), a single object, or an empty array
InspectJSON(form, id, name, mounts) ==
    <<[json |-> form, Id |-> id, Name |-> name, Mounts |-> mounts,
       Networks |-> {NameWeb}, Image |-> NameWeb]>>
ContainerNameOf(id) ==
    IF id = IdDb THEN NameDb
    ELSE IF id = IdA THEN NameUnderscored
    ELSE IF id = IdB THEN NameHyphened
    ELSE NameWeb
\* what docker inspect can print for the unit id
InspectDocs(id) ==
    IF id = IdUnit
    THEN {InspectJSON("array", id, Slash \o ContainerNameOf(id), mounts) : mounts \in MountCases}
    ELSE IF id \in {IdA, IdB}
    THEN {InspectJSON("array", id, Slash \o ContainerNameOf(id), <<>>)}
    ELSE {InspectJSON(form, id, Slash \o ContainerNameOf(id), mounts) :
             form \in {"array", "object"}, mounts \in MountLists}
         \cup {InspectJSON("empty", <<>>, <<>>, <<>>)}

\* docker.ParseContainerInfo: [err, info]
ParseContainerInfo(inspectJSON) ==
    IF inspectJSON[1].json # "array"
    THEN [err |-> TRUE, info |-> [ID |-> <<>>, Name |-> <<>>, Mounts |-> <<>>]]
    ELSE [err |-> FALSE,
          info |-> [ID |-> inspectJSON[1].Id,
                    Name |-> IF Len(inspectJSON[1].Name) > 0 /\ inspectJSON[1].Name[1] = "/"
                             THEN Tail(inspectJSON[1].Name) ELSE inspectJSON[1].Name,
                    Mounts |-> inspectJSON[1].Mounts]]

\* json.Unmarshal(inspectJSON, &cj) into a types.ContainerJSON: only a JSON
\* object decodes; otherwise cj keeps its zero value (nil NetworkSettings,
\* nil ContainerJSONBase)
UnmarshalContainerJSON(inspectJSON) ==
    IF inspectJSON # <<>> /\ inspectJSON[1].json = "object"
    THEN [err |-> FALSE, Networks |-> inspectJSON[1].Networks, Image |-> inspectJSON[1].Image,
          Mounts |-> inspectJSON[1].Mounts, Name |-> inspectJSON[1].Name]
    ELSE [err |-> TRUE, Networks |-> {}, Image |-> <<>>, Mounts |-> <<>>, Name |-> <<>>]

(***************************************************************************)
(* pkg/backup: the engine's calls.  eng.stack holds one frame per running  *)
(* call of Backup, Restore or Validate, the innermost last; eng.returned   *)
(* keeps what each finished call returned.                                 *)
(***************************************************************************)
Request(containerID, outputPath, backupPath, projectPath, projectName, start) ==
    [ContainerID |-> containerID, OutputPath |-> outputPath, BackupPath |-> backupPath,
     ComposeProjectPath |-> projectPath, ProjectName |-> projectName, Start |-> start]

\* the creation of the unit: what CreateContainerFromSpec answered (kind and
\* the text of its error), whether CreateContainer was called, and whether
\* the runtime holds a unit that this call created
NoCreate == [kind |-> "none", text |-> <<>>, simple |-> FALSE, unit |-> FALSE]
\* bindRestoreRoot is Options.BindRestoreRoot, fs0 the filesystem the call
\* found, hostMounts the hostCfg.Mounts the unit is created with, dataRestored
\* the mounts (by index) whose archive Restore found and extracted
\* Options.WaitHealthy, Options.WaitTimeoutSeconds and whether the recorded
\* State.Health of container.json is set
NoWait == [WaitHealthy |-> FALSE, WaitTimeoutSeconds |-> 0, Health |-> FALSE]
Frame(fn, target, req) ==
    [fn |-> fn, target |-> target, pc |-> "entry", req |-> req,
     workDir |-> <<>>, inspectJSON |-> <<>>,
     info |-> [ID |-> <<>>, Name |-> <<>>, Mounts |-> <<>>],
     outputPath |-> <<>>, i |-> 1, includesVolumes |-> FALSE,
     failed |-> {}, packaged |-> FALSE, projectName |-> <<>>, refs |-> <<>>,
     order |-> <<>>, cj |-> <<>>, imageRef |-> <<>>, valid |-> FALSE, details |-> {},
     create |-> NoCreate, startCalled |-> FALSE, wait |-> NoWait, polls |-> 0,
     now |-> 0, deadline |-> 0, seen |-> "", cancelSeen |-> FALSE,
     restored |-> <<>>, attempted |-> <<>>, started |-> <<>>,
     bindRestoreRoot |-> <<>>, fs0 |-> <<>>, hostMounts |-> <<>>, dataRestored |-> {}]

EngIdle == [stack |-> <<>>, returned |-> {}, ret |-> [err |-> FALSE], tmpSeq |-> 0]

Top == eng.stack[Len(eng.stack)]
Running(fn, pc) == eng.stack # <<>> /\ Top.fn = fn /\ Top.pc = pc
At(fr, pc) == [fr EXCEPT !.pc = pc]
Failed(fr, step) == [fr EXCEPT !.failed = @ \cup {step}]

DeferredSkipped(f, workDir) == f
\* the deferred os.RemoveAll(workDir); nothing is deferred before the scratch
\* directory is allocated
Deferred(f, workDir) == IF workDir = <<>> THEN f ELSE RemoveAll(f, workDir)

\* what a finished call leaves behind for the properties
Returned(fr, err) ==
    [fn |-> fr.fn, target |-> fr.target, depth |-> Len(eng.stack), err |-> err,
     step |-> fr.pc, workDir |-> fr.workDir, outputPath |-> fr.outputPath,
     backupPath |-> fr.req.BackupPath,
     mounts |-> Len(fr.info.Mounts), failed |-> fr.failed, packaged |-> fr.packaged,
     valid |-> fr.valid, details |-> fr.details,
     start |-> fr.req.Start, create |-> fr.create, startCalled |-> fr.startCalled,
     wait |-> fr.wait, polls |-> fr.polls, now |-> fr.now, deadline |-> fr.deadline,
     seen |-> fr.seen, cancelSeen |-> fr.cancelSeen,
     order |-> fr.order, restored |-> fr.restored, attempted |-> fr.attempted,
     started |-> fr.started, i |-> fr.i, refs |-> fr.refs,
     bindRestoreRoot |-> fr.bindRestoreRoot, fs0 |-> fr.fs0,
     infoMounts |-> fr.info.Mounts,
     attached |-> IF fr.inspectJSON = <<>> THEN {} ELSE fr.inspectJSON[1].Networks,
     cjMounts |-> IF fr.cj = <<>> THEN <<>> ELSE fr.cj.Mounts,
     hostMounts |-> fr.hostMounts, dataRestored |-> fr.dataRestored]

\* return from the innermost call with filesystem f: the deferred calls run,
\* the frame is popped
EngReturn(f, fr, err) ==
    /\ fs' = Deferred(f, fr.workDir)
    /\ eng' = [eng EXCEPT !.stack = SubSeq(@, 1, Len(@) - 1),
                          !.returned = @ \cup {Returned(fr, err)},
                          !.ret = [err |-> err]]
    /\ UNCHANGED <<rst, ctxDone, tar, drv, ord>>

\* the innermost call goes on as fr with filesystem f
EngStep(f, fr) ==
    /\ fs' = f
    /\ eng' = [eng EXCEPT !.stack = [@ EXCEPT ![Len(@)] = fr]]
    /\ UNCHANGED <<rst, ctxDone, tar, drv, ord>>

StepLogsAndGoesOn(ok, r, step, fr) ==
    EngStep(r.fs, IF ~ok \/ r.err THEN Failed(fr, step) ELSE fr)
\* a step whose failure returns an error: r is the filesystem call it made,
\* ok is false when the step failed for a reason of its own
StepOrAbort(ok, r, step, fr) ==
    IF ~ok \/ r.err THEN EngReturn(r.fs, Failed(Top, step), TRUE)
    ELSE EngStep(r.fs, fr)


(***************************************************************************)
(* DefaultBackupEngine.Backup, single unit                                 *)
(***************************************************************************)
FsExport == <<"r", "o", "o", "t", "f", "s">>
MetadataJSON(info, includesVolumes) ==
    <<[json |-> "metadata", ContainerID |-> info.ID, ContainerName |-> info.Name,
       IncludesVolumes |-> includesVolumes]>>
ConfigsJSON(names) == <<[json |-> "configs", names |-> names]>>

\* the request is checked
BkValidate ==
    /\ Running("Backup", "entry")
    /\ Top.target # "compose"
    /\ IF Top.target # "container" \/ Top.req.ContainerID = <<>>
       THEN EngReturn(fs, Failed(Top, "request"), TRUE)
       ELSE EngStep(fs, At(Top, "inspect"))

\* the answers of dockerClient.InspectContainer: an error, or the bytes of a
\* JSON value; a cancelled context makes the call fail
InspectOutcomes(id, cancelled) ==
    {[err |-> TRUE, json |-> <<>>]} \cup
    (IF cancelled THEN {} ELSE {[err |-> FALSE, json |-> j] : j \in InspectDocs(id)})

outputPathOf(req, info) ==
    IF req.OutputPath = <<>> THEN Join(Cwd, safeName(info.Name) \o BackupSuffix)
    ELSE req.OutputPath

BkInspected(out, parsed) ==
    IF out.err THEN EngReturn(fs, Failed(Top, "inspect"), TRUE)
    ELSE IF parsed.err THEN EngReturn(fs, Failed(Top, "parse"), TRUE)
    ELSE EngStep(fs, [Top EXCEPT !.pc = "mktemp", !.inspectJSON = out.json,
                                 !.info = parsed.info,
                                 !.outputPath = outputPathOf(Top.req, parsed.info)])
\* InspectContainer, ParseContainerInfo, and the output path
BkInspect ==
    /\ Running("Backup", "inspect")
    /\ \E out \in InspectOutcomes(Top.req.ContainerID, ctxDone) :
          BkInspected(out, IF out.err THEN [err |-> TRUE] ELSE ParseContainerInfo(out.json))

\* os.MkdirTemp("", pattern): a fresh name under os.TempDir()
ScratchPath(prefix, k) == Join(TempDir, prefix \o <<"_">> \o Digit(k))
EngAlloc(ok, r, fr, workDir) ==
    IF ~ok \/ r.err
    THEN EngReturn(fs, Failed(fr, "scratch"), TRUE)
    ELSE /\ fs' = r.fs
         /\ eng' = [eng EXCEPT !.stack = [@ EXCEPT ![Len(@)] = [fr EXCEPT !.workDir = workDir]],
                               !.tmpSeq = @ + 1]
         /\ UNCHANGED <<rst, ctxDone, tar, drv, ord>>
MkdirTemp(ok, fr, workDir) == EngAlloc(ok, Mkdir(fs, workDir), fr, workDir)

BkMkdirTemp ==
    /\ Running("Backup", "mktemp")
    /\ \E ok \in BOOLEAN :
          MkdirTemp(ok, At(Top, "container.json"),
                    ScratchPath(ScratchPrefix \o safeName(Top.info.Name), eng.tmpSeq + 1))

\* os.WriteFile(containerJSONPath, inspectJSON)
BkWriteContainerJSON ==
    /\ Running("Backup", "container.json")
    /\ \E ok \in BOOLEAN :
          StepOrAbort(ok,
                      IF ok THEN WriteFile(fs, Join(Top.workDir, ContainerJSONName), Top.inspectJSON)
                      ELSE FsOk(fs, {}),
                      "container.json", At(Top, "export"))

\* dockerClient.ExportContainerFilesystem: the file is created, then docker
\* export writes into it
BkExport ==
    /\ Running("Backup", "export")
    /\ \E ok \in {b \in BOOLEAN : b => ~ctxDone} :
          StepOrAbort(ok,
                      WriteFile(fs, Join(Top.workDir, FilesystemTarName),
                                IF ok THEN FsExport ELSE <<>>),
                      "export", At(Top, "volumes"))

\* os.MkdirAll(volumesDir)
BkMkdirVolumes ==
    /\ Running("Backup", "volumes")
    /\ \E ok \in BOOLEAN :
          StepOrAbort(ok,
                      IF ok THEN MkdirAll(fs, Join(Top.workDir, VolumesName)) ELSE FsOk(fs, {}),
                      "volumes dir", [Top EXCEPT !.pc = "mounts", !.i = 1])

\* what the mount loop archives for mount m: nothing, or a source and the
\* archive's name under the volumes directory
MountArchive(m) ==
    IF m.Type = "volume" /\ m.Name # <<>> /\ m.Source # <<>>
    THEN [any |-> TRUE, src |-> ArchiveSource(m.Source, m.Name),
          name |-> safeName(m.Name) \o TarGzSuffix]
    ELSE IF m.Type = "bind" /\ m.Source # <<>>
    THEN [any |-> TRUE, src |-> ArchiveSource(m.Source, Base(m.Source)),
          name |-> BindPrefix \o safeName(Base(m.Source)) \o TarGzSuffix]
    ELSE [any |-> FALSE, src |-> ArchiveSource(<<>>, <<>>), name |-> <<>>]

BkMountArchived(r) ==
    IF r.err THEN EngReturn(r.fs, Failed(Top, "mount"), TRUE)
    ELSE EngStep(r.fs, [Top EXCEPT !.i = @ + 1, !.includesVolumes = TRUE])
BkMountOf(ma) ==
    IF ma.any
    THEN \E stopAt \in CreateStops(fs, <<ma.src>>, ctxDone) :
            BkMountArchived(CreateArchive(fs, <<ma.src>>,
                                          Join(Join(Top.workDir, VolumesName), ma.name), stopAt))
    ELSE EngStep(fs, [Top EXCEPT !.i = @ + 1])
\* one iteration of the loop over info.Mounts
BkMount ==
    /\ Running("Backup", "mounts")
    /\ Top.i <= Len(Top.info.Mounts)
    /\ BkMountOf(MountArchive(Top.info.Mounts[Top.i]))

\* the names of the named volumes among the mounts
VolumeNames(mounts) ==
    {mounts[k].Name : k \in {j \in 1..Len(mounts) : mounts[j].Type = "volume" /\ mounts[j].Name # <<>>}}

\* best-effort capture: got are the names whose inspect succeeded, wok is
\* whether the configs file could be written; nothing here returns an error
Captured(f, path, got, wok) ==
    IF got # {} /\ wok THEN WriteFile(f, path, ConfigsJSON(got)).fs ELSE f
CaptureFailed(all, got, wok) == got # all \/ (got # {} /\ ~wok)

BkVolumeConfigsGot(all, got, wok) ==
    EngStep(Captured(fs, Join(Join(Top.workDir, VolumesName), VolumeConfigsName), got, wok),
            IF CaptureFailed(all, got, wok)
            THEN Failed(At(Top, "networks"), "volume config")
            ELSE At(Top, "networks"))
\* InspectVolume of every named volume and volume_configs.json
BkVolumeConfigs ==
    /\ Running("Backup", "mounts")
    /\ Top.i > Len(Top.info.Mounts)
    /\ \E got \in SUBSET VolumeNames(Top.info.Mounts), wok \in BOOLEAN :
          /\ ctxDone => got = {}
          /\ got = {} => wok
          /\ BkVolumeConfigsGot(VolumeNames(Top.info.Mounts), got, wok)

BkNetworksGot(mk, all, got, wok) ==
    IF mk.err THEN EngReturn(mk.fs, Failed(Top, "networks dir"), TRUE)
    ELSE EngStep(Captured(mk.fs, Join(Join(Top.workDir, NetworksName), NetworkConfigsName),
                          got, wok),
                 IF CaptureFailed(all, got, wok)
                 THEN Failed(At(Top, "metadata"), "network config")
                 ELSE At(Top, "metadata"))
\* os.MkdirAll(netDir), then InspectNetwork of every network of cj and
\* network_configs.json
BkNetworks ==
    /\ Running("Backup", "networks")
    /\ \E ok \in BOOLEAN :
       \E got \in SUBSET UnmarshalContainerJSON(Top.inspectJSON).Networks, wok \in BOOLEAN :
          /\ ctxDone => got = {}
          /\ got = {} => wok
          /\ BkNetworksGot(IF ok THEN MkdirAll(fs, Join(Top.workDir, NetworksName))
                           ELSE FsErr(fs, {}),
                           UnmarshalContainerJSON(Top.inspectJSON).Networks, got, wok)

\* dockerClient.ImageSave when cj names an image: the file is created, then
\* docker save writes into it; the error is dropped
ImageSaved(f, path, cj, iok) ==
    IF ~cj.err /\ cj.Image # <<>>
    THEN WriteFile(f, path, IF iok THEN cj.Image ELSE <<>>).fs
    ELSE f
BkMetadataWritten(ok, w, cj, iok) ==
    IF ~ok \/ w.err THEN EngReturn(w.fs, Failed(Top, "metadata"), TRUE)
    ELSE EngStep(ImageSaved(w.fs, Join(Top.workDir, ImageTarName), cj, iok),
                 IF ~cj.err /\ cj.Image # <<>> /\ ~iok
                 THEN Failed(At(Top, "package"), "image save")
                 ELSE At(Top, "package"))
\* metadata.json, then the best-effort image save
BkMetadata ==
    /\ Running("Backup", "metadata")
    /\ \E ok \in BOOLEAN, iok \in {b \in BOOLEAN : b => ~ctxDone} :
          BkMetadataWritten(ok,
                            IF ok THEN WriteFile(fs, Join(Top.workDir, MetadataName),
                                                 MetadataJSON(Top.info, Top.includesVolumes))
                            ELSE FsOk(fs, {}),
                            UnmarshalContainerJSON(Top.inspectJSON), iok)

BackupSourcesWithoutMetadata(workDir, hasImage) ==
    << ArchiveSource(Join(workDir, ContainerJSONName), ContainerJSONName),
       ArchiveSource(Join(workDir, FilesystemTarName), FilesystemTarName),
       ArchiveSource(Join(workDir, VolumesName), VolumesName),
       ArchiveSource(Join(workDir, NetworksName), NetworksName) >>
\* the sources of the final archive
BackupSources(workDir, hasImage) ==
    << ArchiveSource(Join(workDir, ContainerJSONName), ContainerJSONName),
       ArchiveSource(Join(workDir, FilesystemTarName), FilesystemTarName),
       ArchiveSource(Join(workDir, VolumesName), VolumesName),
       ArchiveSource(Join(workDir, NetworksName), NetworksName),
       ArchiveSource(Join(workDir, MetadataName), MetadataName) >>
    \o (IF hasImage THEN <<ArchiveSource(Join(workDir, ImageTarName), ImageTarName)>> ELSE <<>>)

BkPackaged(r) ==
    IF r.err THEN EngReturn(r.fs, Failed([Top EXCEPT !.packaged = TRUE], "package"), TRUE)
    ELSE EngReturn(r.fs, [Top EXCEPT !.packaged = TRUE, !.pc = "done"], FALSE)
BkPackageOf(sources) ==
    \E stopAt \in CreateStops(fs, sources, ctxDone) :
        BkPackaged(CreateArchive(fs, sources, Top.outputPath, stopAt))
\* archiveHandler.CreateArchive(ctx, sources, outputPath)
BkPackage ==
    /\ Running("Backup", "package")
    /\ Top.target = "container"
    /\ BkPackageOf(BackupSources(Top.workDir, Exists(fs, Join(Top.workDir, ImageTarName))))


(***************************************************************************)
(* DefaultBackupEngine.Backup, project (TargetCompose)                     *)
(***************************************************************************)
ComposeFilesName == <<"c", "o", "m", "p", "o", "s", "e", "-", "f", "i", "l", "e", "s">>
ContainersName == <<"c", "o", "n", "t", "a", "i", "n", "e", "r", "s">>
ComposeYml == <<"d", "o", "c", "k", "e", "r", "-", "c", "o", "m", "p", "o", "s", "e", ".", "y", "m", "l">>
ComposeYaml == <<"d", "o", "c", "k", "e", "r", "-", "c", "o", "m", "p", "o", "s", "e", ".", "y", "a", "m", "l">>
ComposeOverride == <<"d", "o", "c", "k", "e", "r", "-", "c", "o", "m", "p", "o", "s", "e", ".", "o", "v", "e", "r", "r", "i", "d", "e", ".", "y", "m", "l">>
DotEnv == <<".", "e", "n", "v">>
ContainerTarGz == <<"c", "o", "n", "t", "a", "i", "n", "e", "r", ".", "t", "a", "r", ".", "g", "z">>
ComposeBackupSuffix == <<"_", "c", "o", "m", "p", "o", "s", "e", "_", "b", "a", "c", "k", "u", "p", ".", "t", "a", "r", ".", "g", "z">>
ComposeScratchPrefix == <<"d", "o", "c", "k", "e", "r", "b", "a", "c", "k", "u", "p", "_", "c", "o", "m", "p", "o", "s", "e", "_">>
RestoreScratchPrefix == <<"d", "o", "c", "k", "e", "r", "b", "a", "c", "k", "u", "p", "_", "r", "e", "s", "t", "o", "r", "e">>
ComposeRestoreScratchPrefix == <<"d", "o", "c", "k", "e", "r", "b", "a", "c", "k", "u", "p", "_", "c", "o", "m", "p", "o", "s", "e", "_", "r", "e", "s", "t", "o", "r", "e">>
ProjectPath == <<"/", "p">>
ProjectNameShop == <<"s", "h", "o", "p">>
ProjectNameBlog == <<"b", "l", "o", "g">>
BlogPath == <<"/", "q">>
SingleBackupPath == <<"/", "i", "n", "/", "s", ".", "t", "g", "z">>
BrokenBackupPath == <<"/", "i", "n", "/", "b", ".", "t", "g", "z">>
ProjectBackupPath == <<"/", "i", "n", "/", "p", ".", "t", "g", "z">>
MissingBackupPath == <<"/", "i", "n", "/", "n", "o", "n", "e", ".", "t", "g", "z">>

\* compose.ParseProjectName of the bytes of a compose file
ParseProjectName(b) == IF b # <<>> /\ b[1].json = "compose" THEN b[1].name ELSE <<>>
ReadFileAt(f, r) ==
    IF r.st = "found" /\ f[r.loc].kind = "file" THEN [err |-> FALSE, data |-> f[r.loc].data]
    ELSE [err |-> TRUE, data |-> <<>>]
\* os.ReadFile
ReadFile(f, path) == ReadFileAt(f, Stat(f, path))

\* the project name: the request's, else the name in the first compose file
\* that has one, else the base name of the project path
RECURSIVE ComposeNameIn(_, _, _)
ComposeNameRead(f, projectPath, files, b) ==
    IF ~b.err /\ ParseProjectName(b.data) # <<>> THEN ParseProjectName(b.data)
    ELSE ComposeNameIn(f, projectPath, Tail(files))
ComposeNameIn(f, projectPath, files) ==
    IF files = <<>> THEN <<>>
    ELSE ComposeNameRead(f, projectPath, files, ReadFile(f, Join(projectPath, Head(files))))
ProjectNameFrom(composeName, projectPath) ==
    IF composeName # <<>> THEN composeName ELSE Base(projectPath)
ProjectNameOf(f, req, projectPath) ==
    IF req.ProjectName # <<>> THEN req.ProjectName
    ELSE ProjectNameFrom(ComposeNameIn(f, projectPath, <<ComposeYml, ComposeYaml>>), projectPath)
ProjectPathOf(req) == IF req.ComposeProjectPath = <<>> THEN Dot ELSE req.ComposeProjectPath

\* the project name and the scratch directory
BpPrepareNamed(projectName) ==
    \E ok \in BOOLEAN :
        MkdirTemp(ok, [Top EXCEPT !.pc = "p:layout", !.projectName = projectName],
                  ScratchPath(ComposeScratchPrefix \o safeName(projectName), eng.tmpSeq + 1))
BpPrepare ==
    /\ Running("Backup", "entry")
    /\ Top.target = "compose"
    /\ BpPrepareNamed(ProjectNameOf(fs, Top.req, ProjectPathOf(Top.req)))

\* the four directories of the scratch tree (errors dropped)
RECURSIVE MkdirAlls(_, _, _)
MkdirAlls(f, dir, names) ==
    IF names = <<>> THEN f
    ELSE MkdirAlls(MkdirAll(f, Join(dir, Head(names))).fs, dir, Tail(names))
\* the compose files that can be read are copied (errors dropped)
RECURSIVE CopyFiles(_, _, _, _)
CopyFile(f, from, to, names, b) ==
    CopyFiles(IF b.err THEN f ELSE WriteFile(f, Join(to, Head(names)), b.data).fs,
              from, to, Tail(names))
CopyFiles(f, from, to, names) ==
    IF names = <<>> THEN f
    ELSE CopyFile(f, from, to, names, ReadFile(f, Join(from, Head(names))))

BpLayout ==
    /\ Running("Backup", "p:layout")
    /\ EngStep(CopyFiles(MkdirAlls(fs, Top.workDir,
                                   <<ComposeFilesName, ContainersName, NetworksName, VolumesName>>),
                         ProjectPathOf(Top.req), Join(Top.workDir, ComposeFilesName),
                         <<ComposeYml, ComposeYaml, ComposeOverride, DotEnv>>),
               At(Top, "p:discover"))

\* docker.ProjectContainerRef
Ref(service, id) == [Service |-> service, ID |-> id]
\* a line of docker ps: the ID and the name of a container
PsLine(id, name) == [ID |-> id, Names |-> name]
\* what docker ps can print for the containers of a project
PsOutputs(project) ==
    IF project = ProjectNameBlog
    THEN { <<PsLine(IdA, NameUnderscored), PsLine(IdB, NameHyphened)>> }
    ELSE { <<>>,
           <<PsLine(IdWeb, <<"s", "h", "o", "p", "_", "w", "e", "b", "_", "1">>)>>,
           <<PsLine(IdWeb, <<"s", "h", "o", "p", "_", "w", "e", "b", "_", "1">>),
             PsLine(IdDb, <<"s", "h", "o", "p", "_", "d", "b", "_", "1">>)>>,
           <<PsLine(IdWeb, <<"s", "h", "o", "p", "_", "w", "e", "b", "_", "1">>),
             PsLine(IdDb, <<"s", "h", "o", "p", "_", "w", "e", "b", "_", "2">>)>> }
\* the service of a container: the second of the parts of its name between
\* underscores when there are three and the first is the project, else the
\* whole name
ServiceOf(name, project) ==
    IF Len(SplitOn(name, "_")) >= 3 /\ SplitOn(name, "_")[1] = project
    THEN SplitOn(name, "_")[2] ELSE name
ListProjectContainers(lines, project) ==
    [k \in 1..Len(lines) |-> Ref(ServiceOf(lines[k].Names, project), lines[k].ID)]
\* the lists the two discovery calls can end with
RefLists(project) == {ListProjectContainers(lines, project) : lines \in PsOutputs(project)}

\* ListProjectContainersByLabel, else ListProjectContainers
BpDiscover ==
    /\ Running("Backup", "p:discover")
    /\ \E refs \in RefLists(Top.projectName) \cup {<<>>} :
          /\ ctxDone => refs = <<>>
          /\ IF refs = <<>> THEN EngReturn(fs, Failed(Top, "discover"), TRUE)
             ELSE EngStep(fs, [Top EXCEPT !.pc = "p:members", !.refs = refs, !.i = 1])

\* a nested call of the engine by the innermost call
EngCall(f, caller, callee) ==
    /\ fs' = f
    /\ eng' = [eng EXCEPT !.stack = Append([@ EXCEPT ![Len(@)] = caller], callee)]
    /\ UNCHANGED <<rst, ctxDone, tar, drv, ord>>

BpMemberOf(r, svcDir) ==
    EngCall(MkdirAll(fs, svcDir).fs, At(Top, "p:member-returned"),
            Frame("Backup", "container",
                  Request(r.ID, Join(svcDir, ContainerTarGz), <<>>, <<>>, <<>>, FALSE)))
\* the single-unit Backup of the next member
BpMember ==
    /\ Running("Backup", "p:members")
    /\ Top.i <= Len(Top.refs)
    /\ BpMemberOf(Top.refs[Top.i],
                  Join(Join(Top.workDir, ContainersName), Top.refs[Top.i].Service))

BpMemberReturned ==
    /\ Running("Backup", "p:member-returned")
    /\ IF eng.ret.err THEN EngReturn(fs, Failed(Top, "member"), TRUE)
       ELSE EngStep(fs, [Top EXCEPT !.pc = "p:members", !.i = @ + 1])

ProjectMetadataJSON(projectName, refs) ==
    <<[json |-> "metadata", projectName |-> projectName,
       services |-> [k \in 1..Len(refs) |-> refs[k].Service]]>>
\* the aggregated volume configs and metadata.json, all best effort; the
\* members' inspect output does not decode into a types.ContainerJSON when it
\* is a JSON array, so that no network is seen
BpAggregated(got, wok, mok) ==
    EngStep(IF mok
            THEN WriteFile(Captured(fs, Join(Join(Top.workDir, VolumesName), VolumeConfigsName),
                                    got, wok),
                           Join(Top.workDir, MetadataName),
                           ProjectMetadataJSON(Top.projectName, Top.refs)).fs
            ELSE Captured(fs, Join(Join(Top.workDir, VolumesName), VolumeConfigsName), got, wok),
            At(Top, "p:package"))
BpAggregate ==
    /\ Running("Backup", "p:members")
    /\ Top.i > Len(Top.refs)
    /\ \E got \in SUBSET {VolName}, wok \in BOOLEAN, mok \in BOOLEAN :
          /\ ctxDone => got = {}
          /\ got = {} => wok
          /\ BpAggregated(got, wok, mok)

ProjectSources(workDir) ==
    << ArchiveSource(Join(workDir, ComposeFilesName), ComposeFilesName),
       ArchiveSource(Join(workDir, ContainersName), ContainersName),
       ArchiveSource(Join(workDir, NetworksName), NetworksName),
       ArchiveSource(Join(workDir, VolumesName), VolumesName),
       ArchiveSource(Join(workDir, MetadataName), MetadataName) >>
ProjectOutputPath(req, projectName) ==
    IF req.OutputPath = <<>>
    THEN Join(ProjectPathOf(req), safeName(projectName) \o ComposeBackupSuffix)
    ELSE req.OutputPath
BpPackaged(r, outputPath) ==
    IF r.err
    THEN EngReturn(r.fs, Failed([Top EXCEPT !.packaged = TRUE, !.outputPath = outputPath],
                                "package"), TRUE)
    ELSE EngReturn(r.fs, [Top EXCEPT !.packaged = TRUE, !.outputPath = outputPath,
                                     !.pc = "done"], FALSE)
BpPackageTo(sources, outputPath) ==
    \E stopAt \in CreateStops(fs, sources, ctxDone) :
        BpPackaged(CreateArchive(fs, sources, outputPath, stopAt), outputPath)
BpPackage ==
    /\ Running("Backup", "p:package")
    /\ BpPackageTo(ProjectSources(Top.workDir), ProjectOutputPath(Top.req, Top.projectName))


(***************************************************************************)
(* TarArchiveHandler.ExtractArchive and ListArchive as the engine calls    *)
(* them: the whole run; the context is found cancelled at the check that   *)
(* follows stopAt entries, stopAt past the last entry meaning never         *)
(***************************************************************************)
RECURSIVE ExtractEntries(_, _, _, _)
ExtractMore(r, destDir, rest, left) ==
    IF r.err # "" THEN [fs |-> r.fs, err |-> TRUE]
    ELSE ExtractEntries(r.fs, destDir, rest, left)
ExtractEntries(f, destDir, hdrs, left) ==
    IF left = 0 THEN [fs |-> f, err |-> TRUE]
    ELSE IF hdrs = <<>> THEN [fs |-> f, err |-> FALSE]
    ELSE ExtractMore(ExtractEntry(f, destDir, Head(hdrs)), destDir, Tail(hdrs), left - 1)
ExtractOpened(made, ar, destDir, stopAt) ==
    IF made.err \/ ar.err THEN [fs |-> made.fs, err |-> TRUE]
    ELSE ExtractEntries(made.fs, destDir, ar.hdrs, stopAt)
\* [fs, err]
ExtractArchive(f, archivePath, destDir, stopAt) ==
    ExtractOpened(MkdirAll(f, destDir), OpenArchive(f, archivePath), destDir, stopAt)

\* the points at which a run over the archive at path can be cancelled: before
\* any of its entries or before the end of the archive is read, or not at all
\* (the last value)
ReadStops(f, path, cancelled) ==
    IF cancelled THEN {0} ELSE 0..(Len(OpenArchive(f, path).hdrs) + 1)

\* ListArchive: [err, entries], an entry being the header's name and type
ArchiveEntry(hdr) == [Path |-> hdr.name, Type |-> hdr.typeflag]
ListOpened(ar, stopAt) ==
    IF ar.err \/ stopAt <= Len(ar.hdrs) THEN [err |-> TRUE, entries |-> <<>>]
    ELSE [err |-> FALSE, entries |-> [k \in 1..Len(ar.hdrs) |-> ArchiveEntry(ar.hdrs[k])]]
ListArchive(f, archivePath, stopAt) == ListOpened(OpenArchive(f, archivePath), stopAt)

(***************************************************************************)
(* extractTarGzToHost                                                      *)
(***************************************************************************)
HostName(name, expectedRoot) ==
    IF expectedRoot # <<>> /\ HasPrefix(name, expectedRoot \o Slash)
    THEN TrimPrefix(name, expectedRoot \o Slash) ELSE name
HostInto(hdr, outPath, parent) ==
    IF parent.err THEN parent ELSE WriteFile(parent.fs, outPath, hdr.data)
HostEntryAt(f, hdr, outPath) ==
    IF hdr.typeflag = TypeDir THEN MkdirAll(f, outPath)
    ELSE IF hdr.typeflag = TypeReg THEN HostInto(hdr, outPath, MkdirAll(f, Dir(outPath)))
    ELSE FsOk(f, {})
RECURSIVE HostEntries(_, _, _, _, _)
HostMore(r, destDir, expectedRoot, rest, left) ==
    IF r.err THEN [fs |-> r.fs, err |-> TRUE]
    ELSE HostEntries(r.fs, destDir, expectedRoot, rest, left)
HostEntries(f, destDir, expectedRoot, hdrs, left) ==
    IF left = 0 THEN [fs |-> f, err |-> TRUE]
    ELSE IF hdrs = <<>> THEN [fs |-> f, err |-> FALSE]
    ELSE HostMore(HostEntryAt(f, Head(hdrs),
                              Join(destDir, HostName(Head(hdrs).name, expectedRoot))),
                  destDir, expectedRoot, Tail(hdrs), left - 1)
extractTarGzToHostOpened(f, ar, destDir, expectedRoot, stopAt) ==
    IF ar.err THEN [fs |-> f, err |-> TRUE]
    ELSE HostEntries(f, destDir, expectedRoot, ar.hdrs, stopAt)
extractTarGzToHost(f, tarGzPath, destDir, expectedRoot, stopAt) ==
    extractTarGzToHostOpened(f, OpenArchive(f, tarGzPath), destDir, expectedRoot, stopAt)

(***************************************************************************)
(* DefaultBackupEngine.Restore, single unit                                *)
(***************************************************************************)
RsMkdirTemp ==
    /\ Running("Restore", "entry")
    /\ Top.target # "compose"
    /\ \E ok \in BOOLEAN :
          MkdirTemp(ok, At(Top, "extract"), ScratchPath(RestoreScratchPrefix, eng.tmpSeq + 1))

RsExtracted(r) ==
    IF r.err THEN EngReturn(r.fs, Failed(Top, "extract"), TRUE)
    ELSE EngStep(r.fs, At(Top, "container.json"))
RsExtract ==
    /\ Running("Restore", "extract")
    /\ \E stopAt \in ReadStops(fs, Top.req.BackupPath, ctxDone) :
          RsExtracted(ExtractArchive(fs, Top.req.BackupPath, Top.workDir, stopAt))

\* container.json decodes as one object or as a non-empty array of objects
RestoreContainerJSON(b) ==
    IF b # <<>> /\ b[1].json \in {"object", "array"}
    THEN [err |-> FALSE, Networks |-> b[1].Networks, Image |-> b[1].Image,
          Mounts |-> b[1].Mounts, Name |-> b[1].Name]
    ELSE [err |-> TRUE, Networks |-> {}, Image |-> <<>>, Mounts |-> <<>>, Name |-> <<>>]
RsContainerJSONRead(b, cj) ==
    IF b.err THEN EngReturn(fs, Failed(Top, "read container.json"), TRUE)
    ELSE IF cj.err THEN EngReturn(fs, Failed(Top, "unmarshal container.json"), TRUE)
    ELSE EngStep(fs, [Top EXCEPT !.pc = "image", !.cj = cj])
RsContainerJSONOf(b) ==
    RsContainerJSONRead(b, IF b.err THEN [err |-> TRUE] ELSE RestoreContainerJSON(b.data))
RsReadContainerJSON ==
    /\ Running("Restore", "container.json")
    /\ RsContainerJSONOf(ReadFile(fs, Join(Top.workDir, ContainerJSONName)))

ImportedID == <<"i", "m", "g">>
RsImport(imageRef) ==
    IF imageRef # <<>> THEN EngStep(fs, [Top EXCEPT !.pc = "mounts", !.imageRef = imageRef, !.i = 1])
    ELSE IF Exists(fs, Join(Top.workDir, FilesystemTarName))
    THEN \E ok \in {b \in BOOLEAN : b => ~ctxDone} :
            IF ok THEN EngStep(fs, [Top EXCEPT !.pc = "mounts", !.imageRef = ImportedID, !.i = 1])
            ELSE EngReturn(fs, Failed(Top, "import image"), TRUE)
    ELSE EngReturn(fs, Failed(Top, "filesystem.tar missing"), TRUE)
\* ImageLoad of image.tar when present, else ImportImage of filesystem.tar
RsImage ==
    /\ Running("Restore", "image")
    /\ \E lok \in {b \in BOOLEAN : b => ~ctxDone} :
          RsImport(IF Exists(fs, Join(Top.workDir, ImageTarName)) /\ lok
                   THEN Top.cj.Image ELSE <<>>)

RsBindRestored(mk, r) ==
    IF mk.err THEN EngReturn(mk.fs, Failed(Top, "mkdir bind path"), TRUE)
    ELSE IF r.err THEN EngReturn(r.fs, Failed(Top, "restore bind mount"), TRUE)
    ELSE EngStep(r.fs, [Top EXCEPT !.i = @ + 1, !.dataRestored = @ \cup {Top.i}])
RsBind(m, bindTarGz) ==
    IF Exists(fs, bindTarGz)
    THEN \E stopAt \in ReadStops(fs, bindTarGz, ctxDone) :
            RsBindRestored(MkdirAll(fs, m.Source),
                           extractTarGzToHost(MkdirAll(fs, m.Source).fs, bindTarGz, m.Source,
                                              Base(m.Source), stopAt))
    ELSE EngStep(fs, [Top EXCEPT !.i = @ + 1])
RsVolume(m, volTarGz) ==
    \E cok \in {b \in BOOLEAN : b => ~ctxDone}, xok \in {b \in BOOLEAN : b => ~ctxDone} :
        IF ~cok THEN EngReturn(fs, Failed(Top, "create volume"), TRUE)
        ELSE IF Exists(fs, volTarGz) /\ ~xok
        THEN EngReturn(fs, Failed(Top, "restore volume"), TRUE)
        ELSE EngStep(fs, [Top EXCEPT !.i = @ + 1,
                                     !.dataRestored = IF Exists(fs, volTarGz)
                                                      THEN @ \cup {Top.i} ELSE @])
RsMountOf(m) ==
    IF m.Type = "volume" /\ m.Name # <<>>
    THEN RsVolume(m, Join(Join(Top.workDir, VolumesName), m.Name \o TarGzSuffix))
    ELSE IF m.Type = "bind" /\ m.Source # <<>>
    THEN RsBind(m, Join(Join(Top.workDir, VolumesName),
                        BindPrefix \o safeName(Base(m.Source)) \o TarGzSuffix))
    ELSE EngStep(fs, [Top EXCEPT !.i = @ + 1])
\* one iteration of the loop that restores the data of the mounts
RsMount ==
    /\ Running("Restore", "mounts")
    /\ Top.i <= Len(Top.cj.Mounts)
    /\ RsMountOf(Top.cj.Mounts[Top.i])

\* os.IsNotExist of the error of os.Stat: ENOENT, not ENOTDIR or ELOOP
IsNotExist(f, r) == r.st = "absent" \/ (r.st = "error" /\ r.loc \notin DOMAIN f)
\* the bind mounts of hostCfg.Mounts whose source is missing, moved below
\* the bind restore root
Relocates(f, m, o) ==
    /\ o.BindRestoreRoot # <<>>
    /\ m.Type = "bind" /\ m.Source # <<>>
    /\ IsNotExist(f, Stat(f, m.Source))
RelocatedSource(m, o) == Join(o.BindRestoreRoot, Base(m.Source))
RelocateMounts(f, mounts, o) ==
    [i \in 1..Len(mounts) |->
        IF Relocates(f, mounts[i], o)
        THEN [mounts[i] EXCEPT !.Source = RelocatedSource(mounts[i], o)]
        ELSE mounts[i]]
\* the os.MkdirAll of every new source, errors dropped
RECURSIVE RelocateDirs(_, _, _, _)
RelocateDirs(f0, f, mounts, o) ==
    IF mounts = <<>> THEN f
    ELSE RelocateDirs(f0, IF Relocates(f0, Head(mounts), o)
                          THEN MkdirAll(f, RelocatedSource(Head(mounts), o)).fs ELSE f,
                      Tail(mounts), o)

\* the relocation in Restore: hostCfg.Mounts holds one entry per mount of the
\* recorded configuration (a unit created with --mount)
RootOption(fr) == [BindRestoreRoot |-> fr.bindRestoreRoot]
RsRelocated(fr) ==
    [fr EXCEPT !.hostMounts = RelocateMounts(fs, fr.cj.Mounts, RootOption(fr))]
RsRelocatedFs == RelocateDirs(fs, fs, Top.cj.Mounts, RootOption(Top))

\* internal/errors.ErrNotImplemented
ErrNotImplemented == <<"n", "o", "t", " ", "i", "m", "p", "l", "e", "m", "e", "n", "t", "e", "d">>
\* errors of a creation that the runtime attempted
ErrFunctionNotImplemented == <<"f", "u", "n", "c", "t", "i", "o", "n", " ", "n", "o", "t", " ", "i", "m", "p", "l", "e", "m", "e", "n", "t", "e", "d">>
ErrConflict == <<"c", "o", "n", "f", "l", "i", "c", "t">>
\* what CreateContainerFromSpec can answer: the unit, ErrNotImplemented of an
\* adapter without the capability, or the error of a creation that failed
CreateOutcomes ==
    { [kind |-> "created", text |-> <<>>],
      [kind |-> "unavailable", text |-> ErrNotImplemented],
      [kind |-> "failed", text |-> ErrFunctionNotImplemented],
      [kind |-> "failed", text |-> ErrConflict] }
\* a Restore that goes on to the start step although CreateContainer failed
RsCreatedUnchecked(out, ok) ==
    IF out.text # <<>> /\ ~Contains(out.text, ErrNotImplemented)
    THEN EngReturn(RsRelocatedFs, Failed([RsRelocated(Top) EXCEPT !.create = [kind |-> out.kind, text |-> out.text,
                                                      simple |-> FALSE, unit |-> FALSE]],
                              "create from spec"), TRUE)
    ELSE EngStep(RsRelocatedFs, [RsRelocated(Top) EXCEPT !.pc = "start",
                                 !.create = [kind |-> out.kind, text |-> out.text,
                                             simple |-> out.text # <<>>,
                                             unit |-> out.text = <<>> \/ ok]])
\* out is the answer of CreateContainerFromSpec, ok whether CreateContainer,
\* when called, created the unit
RsCreated(out, ok) ==
    IF out.text # <<>> /\ ~Contains(out.text, ErrNotImplemented)
    THEN EngReturn(RsRelocatedFs, Failed([RsRelocated(Top) EXCEPT !.create = [kind |-> out.kind, text |-> out.text,
                                                      simple |-> FALSE, unit |-> FALSE]],
                              "create from spec"), TRUE)
    ELSE IF out.text # <<>> /\ ~ok
    THEN EngReturn(RsRelocatedFs, Failed([RsRelocated(Top) EXCEPT !.create = [kind |-> out.kind, text |-> out.text,
                                                      simple |-> TRUE, unit |-> FALSE]],
                              "docker create"), TRUE)
    ELSE EngStep(RsRelocatedFs, [RsRelocated(Top) EXCEPT !.pc = "start",
                                 !.create = [kind |-> out.kind, text |-> out.text,
                                             simple |-> out.text # <<>>, unit |-> TRUE]])
\* the relocation of the missing bind sources, CreateContainerFromSpec, and
\* CreateContainer when its error says "not implemented"
RsCreate ==
    /\ Running("Restore", "mounts")
    /\ Top.i > Len(Top.cj.Mounts)
    /\ \E out \in CreateOutcomes, ok \in {b \in BOOLEAN : b => ~ctxDone} :
          /\ ctxDone => out.kind # "created"
          /\ RsCreated(out, ok)

\* the wait of Restore: two minutes unless a positive timeout is given, and
\* a look at the state of the unit every two seconds
DefaultWaitSeconds == 120
PollIntervalSeconds == 2
WaitTimeouts == {0, 3}
WaitOptions ==
    {[WaitHealthy |-> w, WaitTimeoutSeconds |-> t, Health |-> h] :
        w \in BOOLEAN, t \in WaitTimeouts, h \in BOOLEAN}
HealthcheckAssumed(wait) == FALSE
\* noHealthcheck: the recorded state has no Health
NoHealthcheck(wait) == ~wait.Health
WaitDeadline(wait) ==
    IF wait.WaitTimeoutSeconds <= 0 THEN DefaultWaitSeconds ELSE wait.WaitTimeoutSeconds
RsStarted(wait, ok) ==
    IF ~Top.req.Start THEN EngReturn(fs, [Top EXCEPT !.pc = "done", !.wait = wait], FALSE)
    ELSE IF ~ok
    THEN EngReturn(fs, Failed([Top EXCEPT !.startCalled = TRUE, !.wait = wait],
                              "docker start"), TRUE)
    ELSE IF wait.WaitHealthy /\ ~NoHealthcheck(wait)
    THEN EngStep(fs, [Top EXCEPT !.pc = "wait", !.startCalled = TRUE, !.wait = wait,
                                 !.now = 0, !.deadline = WaitDeadline(wait)])
    ELSE EngReturn(fs, [Top EXCEPT !.pc = "done", !.startCalled = TRUE, !.wait = wait], FALSE)
\* StartContainer when asked for, and whether the unit is waited on; the
\* clock of the frame starts when the deadline is set
RsStart ==
    /\ Running("Restore", "start")
    /\ \E wait \in WaitOptions, ok \in {b \in BOOLEAN : b => ~ctxDone} :
          RsStarted(wait, ok)

\* what one look at ContainerState shows: a stopped unit (exited, dead or
\* removing), health "healthy", or neither (also when the call fails, its
\* error being dropped)
Observations == {"stopped", "healthy", "neither"}
RsPolled(obs) ==
    IF obs = "neither"
    THEN EngStep(fs, [Top EXCEPT !.polls = @ + 1, !.seen = obs,
                                 !.cancelSeen = @ \/ ctxDone,
                                 !.now = @ + PollIntervalSeconds])
    ELSE EngReturn(fs, [Top EXCEPT !.pc = "done", !.polls = @ + 1, !.seen = obs,
                                   !.cancelSeen = @ \/ ctxDone], FALSE)
\* one iteration of the wait: return when the deadline has passed, else
\* ContainerState and, unless the unit is stopped or healthy, a sleep
RsPoll ==
    /\ Running("Restore", "wait")
    /\ IF Top.now > Top.deadline
       THEN EngReturn(fs, [Top EXCEPT !.pc = "done", !.seen = "timeout",
                                      !.cancelSeen = @ \/ ctxDone], FALSE)
       ELSE \E obs \in {o \in Observations : ctxDone => o = "neither"} : RsPolled(obs)

(***************************************************************************)
(* DefaultBackupEngine.Restore, project (TargetCompose)                    *)
(***************************************************************************)
RpMkdirTemp ==
    /\ Running("Restore", "entry")
    /\ Top.target = "compose"
    /\ \E ok \in BOOLEAN :
          MkdirTemp(ok, At(Top, "p:extract"),
                    ScratchPath(ComposeRestoreScratchPrefix, eng.tmpSeq + 1))

RpExtracted(r) ==
    IF r.err THEN EngReturn(r.fs, Failed(Top, "extract"), TRUE)
    ELSE EngStep(r.fs, At(Top, "p:order"))
RpExtract ==
    /\ Running("Restore", "p:extract")
    /\ \E stopAt \in ReadStops(fs, Top.req.BackupPath, ctxDone) :
          RpExtracted(ExtractArchive(fs, Top.req.BackupPath, Top.workDir, stopAt))

\* the compose file of the extracted tree: docker-compose.yml, else .yaml
ComposeDataOf(yml, yaml) ==
    IF ~yml.err THEN yml.data ELSE IF ~yaml.err THEN yaml.data ELSE <<>>
ComposeData(f, tmpDir) ==
    ComposeDataOf(ReadFile(f, Join(Join(tmpDir, ComposeFilesName), ComposeYml)),
                  ReadFile(f, Join(Join(tmpDir, ComposeFilesName), ComposeYaml)))
\* the directories under containers/
ServiceDirs(f, r) ==
    IF r.st = "found"
    THEN {l[Len(l)] : l \in {c \in Children(f, r.loc) : f[c].kind = "dir"}}
    ELSE {}
SetToSeq(S) == IF S = {} THEN <<>> ELSE CHOOSE p \in Iterations(S) : TRUE
\* the member order: the resolver's, else the sorted service names, the
\* services being the resolver's names, else the directories found
RestoreOrder(res, dirs) ==
    IF Len(res.order) > 0 THEN res.order
    ELSE SortStrings(SetToSeq(IF SeqRange(res.names) = {} THEN dirs
                              ELSE SeqRange(res.names)))
RpOrderOf(data, dirs) ==
    IF Len(data) > 0
    THEN \E namesIter \in Iterations(data[1].services),
            adjIter \in Iterations(data[1].services) :
            EngStep(fs, [Top EXCEPT !.pc = "p:members", !.i = 1,
                                    !.order = RestoreOrder(
                                        OrderFromComposeYAML(data[1], namesIter, adjIter),
                                        dirs)])
    ELSE EngStep(fs, [Top EXCEPT !.pc = "p:members", !.i = 1,
                                 !.order = RestoreOrder([order |-> <<>>, names |-> <<>>], dirs)])
\* EnsureNetwork and EnsureVolume from the aggregated configs (errors
\* dropped), then the member order
RpOrder ==
    /\ Running("Restore", "p:order")
    /\ RpOrderOf(ComposeData(fs, Top.workDir),
                 ServiceDirs(fs, Stat(fs, Join(Top.workDir, ContainersName))))

\* the first entry of svcDir whose name ends in .tar.gz
MemberTars(f, r) ==
    IF r.st = "found" /\ f[r.loc].kind = "dir"
    THEN SelectSeq(SortedLocs(Children(f, r.loc)), LAMBDA l : HasSuffix(l[Len(l)], TarGzSuffix))
    ELSE <<>>
RpMemberOf(svcDir, tars) ==
    IF tars = <<>> THEN EngStep(fs, [Top EXCEPT !.i = @ + 1])
    ELSE EngCall(fs, [Top EXCEPT !.pc = "p:member-returned",
                                 !.attempted = Append(@, Top.order[Top.i])],
                 Frame("Restore", "container",
                       Request(<<>>, <<>>, Join(svcDir, tars[1][Len(tars[1])]), <<>>, <<>>,
                               FALSE)))
\* the single-unit Restore of the next member, not started
RpMember ==
    /\ Running("Restore", "p:members")
    /\ Top.i <= Len(Top.order)
    /\ RpMemberOf(Join(Join(Top.workDir, ContainersName), Top.order[Top.i]),
                  MemberTars(fs, Stat(fs, Join(Join(Top.workDir, ContainersName),
                                               Top.order[Top.i]))))

CollectAll(restored, svc, err) == Append(restored, svc)
\* restored after the Restore of member svc has returned
Collect(restored, svc, err) == IF err THEN restored ELSE Append(restored, svc)
\* a member's failure does not end the project restore; the member is
\* listed when its Restore returned no error
RpMemberReturned ==
    /\ Running("Restore", "p:member-returned")
    /\ EngStep(fs, [Top EXCEPT !.pc = "p:members", !.i = @ + 1,
                               !.restored = Collect(@, Top.order[Top.i], eng.ret.err)])

\* the start requests of the project: docker start of every service of the
\* order, in the order, when Start is set
StartRequestsReversed(order, start) ==
    IF start THEN [k \in 1..Len(order) |-> order[Len(order) + 1 - k]] ELSE <<>>
StartRequests(order, start) == IF start THEN order ELSE <<>>
\* docker start of every member when asked for (errors dropped)
RpStart ==
    /\ Running("Restore", "p:members")
    /\ Top.i > Len(Top.order)
    /\ EngReturn(fs, [Top EXCEPT !.pc = "done",
                                 !.started = StartRequests(Top.order, Top.req.Start)], FALSE)


(***************************************************************************)
(* DefaultBackupEngine.Validate                                            *)
(***************************************************************************)
RequiredEntriesWithoutMetadata == {ContainerJSONName, FilesystemTarName}
\* the required top-level items
RequiredEntries == {ContainerJSONName, FilesystemTarName, MetadataName}

\* the required names that no entry of the listing carries
Missing(entries) == RequiredEntries \ {entries[k].Path : k \in 1..Len(entries)}

Validated(l) ==
    IF l.err THEN EngReturn(fs, Failed(Top, "list"), TRUE)
    ELSE EngReturn(fs, [Top EXCEPT !.pc = "done", !.valid = (Missing(l.entries) = {}),
                                   !.details = Missing(l.entries)], FALSE)
Validate ==
    /\ Running("Validate", "entry")
    /\ \E stopAt \in ReadStops(fs, Top.req.BackupPath, ctxDone) :
          Validated(ListArchive(fs, Top.req.BackupPath, stopAt))

(***************************************************************************)
(* The engine under its callers                                            *)
(***************************************************************************)
\* a filesystem with the nodes of items (path, node) and their parents
RECURSIVE Populate(_, _)
Populate(f, items) ==
    IF items = <<>> THEN f
    ELSE Populate(Put(MkdirAll(f, Dir(Head(items)[1])).fs, Elements(Head(items)[1]),
                      Head(items)[2]),
                  Tail(items))

\* the archive of the bind mount /h/b and of the volume data
BindArchive ==
    << Header(<<"b", "/">>, TypeDir, <<>>, <<>>),
       Header(<<"b", "/", "g">>, TypeReg, <<>>, <<"n", "e", "w">>) >>
VolumeArchive ==
    << Header(<<"d", "a", "t", "a", "/">>, TypeDir, <<>>, <<>>),
       Header(<<"d", "a", "t", "a", "/", "f">>, TypeReg, <<>>, <<"v", "o", "l">>) >>
\* a single-unit backup archive of the unit web with both mounts
SingleArchive ==
    << Header(ContainerJSONName, TypeReg, <<>>,
              InspectJSON("array", IdWeb, Slash \o NameWeb, <<MountVol, MountBind>>)),
       Header(FilesystemTarName, TypeReg, <<>>, FsExport),
       Header(<<"v", "o", "l", "u", "m", "e", "s", "/">>, TypeDir, <<>>, <<>>),
       Header(<<"v", "o", "l", "u", "m", "e", "s", "/", "d", "a", "t", "a", ".", "t", "a", "r", ".", "g", "z">>, TypeReg, <<>>, VolumeArchive),
       Header(<<"v", "o", "l", "u", "m", "e", "s", "/", "b", "i", "n", "d", "_", "b", ".", "t", "a", "r", ".", "g", "z">>, TypeReg, <<>>, BindArchive),
       Header(<<"n", "e", "t", "w", "o", "r", "k", "s", "/">>, TypeDir, <<>>, <<>>),
       Header(MetadataName, TypeReg, <<>>, <<>>) >>
\* an archive without filesystem.tar and without image.tar
BrokenArchive ==
    << Header(ContainerJSONName, TypeReg, <<>>,
              InspectJSON("object", IdDb, Slash \o NameDb, <<>>)),
       Header(MetadataName, TypeReg, <<>>, <<>>) >>
\* the compose file of the project: B depends on A
ShopCompose ==
    <<[json |-> "compose", name |-> ProjectNameShop, services |-> {SvcA, SvcB},
       dependsOn |-> (SvcA :> {}) @@ (SvcB :> {SvcA}) @@ (SvcC :> {}), form |-> "map"]>>
\* a project backup archive with the members A, whose archive is broken, and B
ProjectArchive ==
    << Header(<<"c", "o", "m", "p", "o", "s", "e", "-", "f", "i", "l", "e", "s", "/">>, TypeDir, <<>>, <<>>),
       Header(<<"c", "o", "m", "p", "o", "s", "e", "-", "f", "i", "l", "e", "s", "/", "d", "o", "c", "k", "e", "r", "-", "c", "o", "m", "p", "o", "s", "e", ".", "y", "m", "l">>, TypeReg, <<>>, ShopCompose),
       Header(<<"c", "o", "n", "t", "a", "i", "n", "e", "r", "s", "/">>, TypeDir, <<>>, <<>>),
       Header(<<"c", "o", "n", "t", "a", "i", "n", "e", "r", "s", "/", "A", "/">>, TypeDir, <<>>, <<>>),
       Header(<<"c", "o", "n", "t", "a", "i", "n", "e", "r", "s", "/", "A", "/", "c", "o", "n", "t", "a", "i", "n", "e", "r", ".", "t", "a", "r", ".", "g", "z">>, TypeReg, <<>>, BrokenArchive),
       Header(<<"c", "o", "n", "t", "a", "i", "n", "e", "r", "s", "/", "B", "/">>, TypeDir, <<>>, <<>>),
       Header(<<"c", "o", "n", "t", "a", "i", "n", "e", "r", "s", "/", "B", "/", "c", "o", "n", "t", "a", "i", "n", "e", "r", ".", "t", "a", "r", ".", "g", "z">>, TypeReg, <<>>, SingleArchive),
       Header(<<"n", "e", "t", "w", "o", "r", "k", "s", "/">>, TypeDir, <<>>, <<>>),
       Header(<<"v", "o", "l", "u", "m", "e", "s", "/">>, TypeDir, <<>>, <<>>),
       Header(MetadataName, TypeReg, <<>>, <<>>) >>

EngineFs ==
    Populate((Root :> DirNode),
             << <<TempDir, DirNode>>, <<Cwd, DirNode>>,
                <<Join(VolSource, <<"f">>), FileNode(<<"v", "o", "l">>)>>,
                <<Join(BindSource, <<"g">>), FileNode(<<"o", "l", "d">>)>>,
                <<Join(ProjectPath, ComposeYml), FileNode(ShopCompose)>>,
                <<SingleBackupPath, FileNode(SingleArchive)>>,
                <<BrokenBackupPath, FileNode(BrokenArchive)>>,
                <<ProjectBackupPath, FileNode(ProjectArchive)>> >>)

\* the calls a caller of the engine can make
TopCalls ==
    {Frame("Backup", target, Request(id, out, <<>>, <<>>, <<>>, FALSE)) :
        target \in {"container", "other"}, id \in {<<>>, IdWeb}, out \in {<<>>, OutFile}}
    \cup {Frame("Backup", "compose", Request(<<>>, c[1], <<>>, ProjectPath, c[2], FALSE)) :
        c \in {<< <<>>, <<>> >>, <<OutFile, ProjectNameShop>>}}
    \cup {Frame("Restore", "container", Request(<<>>, <<>>, path, <<>>, <<>>, start)) :
        path \in {SingleBackupPath, BrokenBackupPath, MissingBackupPath}, start \in BOOLEAN}
    \cup {Frame("Restore", "compose", Request(<<>>, <<>>, path, <<>>, <<>>, start)) :
        path \in {ProjectBackupPath, MissingBackupPath}, start \in BOOLEAN}

EngineCall ==
    /\ eng.stack = <<>>
    /\ eng.returned = {}
    /\ \E fr \in TopCalls : eng' = [eng EXCEPT !.stack = <<fr>>]
    /\ UNCHANGED <<rst, fs, ctxDone, tar, drv, ord>>

InitEngine ==
    /\ rst = <<>>
    /\ fs = EngineFs
    /\ ctxDone = FALSE
    /\ tar = TarIdle
    /\ drv = <<>>
    /\ ord = <<>>
    /\ eng = EngIdle

NextEngine ==
    \/ EngineCall
    \/ Cancel
    \/ BkValidate
    \/ BkInspect
    \/ BkMkdirTemp
    \/ BkWriteContainerJSON
    \/ BkExport
    \/ BkMkdirVolumes
    \/ BkMount
    \/ BkVolumeConfigs
    \/ BkNetworks
    \/ BkMetadata
    \/ BkPackage
    \/ BpPrepare
    \/ BpLayout
    \/ BpDiscover
    \/ BpMember
    \/ BpMemberReturned
    \/ BpAggregate
    \/ BpPackage
    \/ RsMkdirTemp
    \/ RsExtract
    \/ RsReadContainerJSON
    \/ RsImage
    \/ RsMount
    \/ RsCreate
    \/ RsStart
    \/ RsPoll
    \/ RpMkdirTemp
    \/ RpExtract
    \/ RpOrder
    \/ RpMember
    \/ RpMemberReturned
    \/ RpStart

SpecEngine == InitEngine /\ [][NextEngine]_vars

\* a finished single-unit Backup
SingleBackups == {r \in eng.returned : r.fn = "Backup" /\ r.target = "container"}
\* the names of the entries of the archive at path
EntryNames(f, path) ==
    {OpenArchive(f, path).hdrs[k].name : k \in 1..Len(OpenArchive(f, path).hdrs)}

\* C6: when a single-unit Backup has returned an error, no file is left at
\* the output path it resolved.
C6_NoPartialArchive ==
    \A r \in SingleBackups :
        (r.err /\ r.outputPath # <<>>) => ~Exists(fs, r.outputPath)

\* the scratch directories present under the temporary directory
ScratchDirs(f) == Children(f, Elements(TempDir))
\* C7: the scratch directory of every finished Backup or Restore, single or
\* project, nested or not, failed or not, is gone when the call has returned;
\* the scratch directories that exist belong to calls still running.
C7_ScratchRemoved ==
    /\ \A r \in eng.returned : r.workDir # <<>> => Elements(r.workDir) \notin DOMAIN fs
    /\ ScratchDirs(fs) \subseteq
          {Elements(eng.stack[k].workDir) : k \in 1..Len(eng.stack)}
    /\ eng.stack = <<>> => ScratchDirs(fs) = {}
C7_Witness ==
    /\ eng.stack = <<>>
    /\ \E r \in eng.returned :
          r.fn = "Restore" /\ r.target = "compose" /\ r.workDir # <<>> /\ ~r.err
    /\ \E r \in eng.returned :
          r.fn = "Restore" /\ r.depth = 2 /\ r.workDir # <<>> /\ r.err
    /\ \E r \in eng.returned :
          r.fn = "Restore" /\ r.depth = 2 /\ r.workDir # <<>> /\ ~r.err

\* the steps of single-unit Backup before the final packaging
AbortingSteps ==
    {"request", "inspect", "parse", "scratch", "container.json", "export", "volumes dir",
     "mount", "networks dir", "metadata"}
BestEffortSteps == {"volume config", "network config", "image save"}
\* C8 as stated: a failure of any step before the packaging other than the
\* image save (volume-config and network-config capture included) makes
\* Backup return an error without running the packaging.
C8_AnyFailureAborts ==
    \A r \in SingleBackups :
        (r.failed \cap ((AbortingSteps \cup BestEffortSteps) \ {"image save"}) # {}) =>
            (r.err /\ ~r.packaged)
\* C8 amended: a failure of the request check, inspect, parse, scratch
\* allocation, container.json write, filesystem export, volumes or networks
\* directory creation, per-mount archiving or metadata write makes Backup
\* return an error without running the packaging; a failure of the
\* volume-config capture, like the image save, is dropped and the Backup goes
\* on to the packaging.
C8_AbortingStepsAbort ==
    \A r \in SingleBackups :
        /\ (r.failed \cap AbortingSteps # {}) => (r.err /\ ~r.packaged)
        /\ (r.failed \cap AbortingSteps = {}) => r.packaged
C8_Witness ==
    /\ \E r \in SingleBackups :
          r.depth = 2 /\ r.failed = {"volume config"} /\ r.packaged /\ ~r.err
    /\ \E r \in SingleBackups :
          r.depth = 2 /\ r.failed = {"mount"} /\ r.err /\ ~r.packaged

ZeroMountBackups ==
    {r \in SingleBackups : r.depth = 1 /\ ~r.err /\ r.mounts = 0}
VolumesDirEntry == VolumesName \o Slash
NetworksDirEntry == NetworksName \o Slash
\* C9 as stated: the archive of a successful single-unit Backup of a unit
\* without mounts has exactly the entries container.json, filesystem.tar and
\* metadata.json.
C9_ExactlyThreeEntries ==
    \A r \in ZeroMountBackups : EntryNames(fs, r.outputPath) = RequiredEntries
\* C9 amended: that archive has the three entries container.json,
\* filesystem.tar and metadata.json, the two directory entries volumes/ and
\* networks/, and nothing else; so no volumes/*.tar.gz entry.
C9_ThreeFilesAndTwoDirs ==
    \A r \in ZeroMountBackups :
        /\ EntryNames(fs, r.outputPath) =
              RequiredEntries \cup {VolumesDirEntry, NetworksDirEntry}
        /\ \A n \in EntryNames(fs, r.outputPath) :
              ~(HasPrefix(n, VolumesDirEntry) /\ HasSuffix(n, TarGzSuffix))
C9_Witness ==
    \E r \in ZeroMountBackups :
        /\ r.outputPath = OutFile
        /\ Len(OpenArchive(fs, OutFile).hdrs) = 5

(***************************************************************************)
(* Validate under its caller: the archive at the path lists any choice of  *)
(* entries                                                                 *)
(***************************************************************************)
ValidatePath == SingleBackupPath
ListedEntries ==
    { Header(ContainerJSONName, TypeReg, <<>>, <<>>),
      Header(FilesystemTarName, TypeReg, <<>>, <<>>),
      Header(MetadataName, TypeReg, <<>>, <<>>),
      Header(VolumesDirEntry, TypeDir, <<>>, <<>>),
      Header(NetworksDirEntry, TypeDir, <<>>, <<>>),
      Header(ImageTarName, TypeReg, <<>>, <<>>),
      Header(MetadataName \o Slash, TypeDir, <<>>, <<>>),
      Header(Join(VolumesName, MetadataName), TypeReg, <<>>, <<>>) }

\* the entries E as an archive
RECURSIVE ListingOf(_)
ListingOf(E) ==
    IF E = {} THEN <<>>
    ELSE LET h == CHOOSE x \in E : \A y \in E \ {x} : StrLess(x.name, y.name)
         IN  <<h>> \o ListingOf(E \ {h})

InitValidate ==
    /\ rst = <<>>
    /\ \E E \in SUBSET ListedEntries :
          fs = Populate((Root :> DirNode), << <<ValidatePath, FileNode(ListingOf(E))>> >>)
    /\ ctxDone = FALSE
    /\ tar = TarIdle
    /\ drv = <<>>
    /\ ord = <<>>
    /\ eng = EngIdle

ValidateCall ==
    /\ eng.stack = <<>>
    /\ eng.returned = {}
    /\ \E path \in {ValidatePath, MissingBackupPath} :
          eng' = [eng EXCEPT !.stack =
                     <<Frame("Validate", "container",
                             Request(<<>>, <<>>, path, <<>>, <<>>, FALSE))>>]
    /\ UNCHANGED <<rst, fs, ctxDone, tar, drv, ord>>

NextValidate ==
    \/ ValidateCall
    \/ Validate
    \/ Cancel

SpecValidate == InitValidate /\ [][NextValidate]_vars

Validations == {r \in eng.returned : r.fn = "Validate"}
\* C10: Validate answers Valid=true exactly when the listing has the three
\* entries container.json, filesystem.tar and metadata.json, whatever else it
\* has or lacks; otherwise it answers Valid=false, without an error, and the
\* details name every missing required entry.  It returns an error only when
\* the archive could not be listed.
C10_ValidIffRequiredListed ==
    \A r \in Validations :
        /\ r.err <=> (r.failed = {"list"})
        /\ ~r.err =>
              /\ r.valid <=> ({ContainerJSONName, FilesystemTarName, MetadataName}
                                 \subseteq EntryNames(fs, r.backupPath))
              /\ ~r.valid =>
                    r.details = {ContainerJSONName, FilesystemTarName, MetadataName}
                                   \ EntryNames(fs, r.backupPath)
              /\ r.valid => r.details = {}
C10_Witness ==
    \E r \in Validations :
        /\ ~r.err /\ ~r.valid
        /\ r.details = {FilesystemTarName, MetadataName}
        /\ MetadataName \o Slash \in EntryNames(fs, r.backupPath)
        /\ ImageTarName \in EntryNames(fs, r.backupPath)

(***************************************************************************)
(* package net, as the engine and the docker client use it.  An address in *)
(* a document is text; a parsed IPv4 address is its four octets, and <<>>  *)
(* is what To4() gives for anything else (nil).                            *)
(***************************************************************************)
IsDigit(c) == CharCode[c] >= 48 /\ CharCode[c] <= 57
\* the value of a run of decimal digits
RECURSIVE DecimalValue(_, _)
DecimalValue(t, acc) ==
    IF t = <<>> THEN acc ELSE DecimalValue(Tail(t), acc * 10 + (CharCode[Head(t)] - 48))
\* one field of a dotted-decimal address: one to three digits, no leading
\* zero, at most 255; -1 when the field is not an octet
ParseOctet(t) ==
    IF Len(t) = 0 \/ Len(t) > 3 \/ (\E i \in 1..Len(t) : ~IsDigit(t[i])) \/ (Len(t) > 1 /\ t[1] = "0")
    THEN 0 - 1
    ELSE IF DecimalValue(t, 0) > 255 THEN 0 - 1 ELSE DecimalValue(t, 0)
ParseOctets(fields) ==
    IF Len(fields) = 4 /\ \A i \in 1..4 : ParseOctet(fields[i]) >= 0
    THEN [i \in 1..4 |-> ParseOctet(fields[i])]
    ELSE <<>>
\* net.ParseIP(addr).To4(): the octets of a dotted-decimal address, nil for
\* an IPv6 address and for text that is no address
ParseIPv4(addr) ==
    IF \E i \in 1..Len(addr) : addr[i] = ":" THEN <<>> ELSE ParseOctets(SplitOn(addr, "."))

\* strconv.Itoa for 0..255
Itoa(n) ==
    IF n < 10 THEN Digit(n)
    ELSE IF n < 100 THEN Digit(n \div 10) \o Digit(n % 10)
    ELSE Digit(n \div 100) \o Digit((n \div 10) % 10) \o Digit(n % 10)
\* net.IP.String() of an IPv4 address
IPString(ip) == Itoa(ip[1]) \o Dot \o Itoa(ip[2]) \o Dot \o Itoa(ip[3]) \o Dot \o Itoa(ip[4])

\* net.IPNet: IP is the four octets of an IPv4 address and <<>> for an IPv6
\* address (To4() is nil), Bits the length of the mask
IPNet(ip, bits) == [IP |-> ip, Bits |-> bits]
\* net.IPNet.Contains for an IPv4 network and a four-octet address
\* the number of mask bits that fall into octet k
MaskBits(bits, k) ==
    IF bits >= 8 * k THEN 8 ELSE IF bits <= 8 * (k - 1) THEN 0 ELSE bits - 8 * (k - 1)
IPNetContains(ipn, ip) ==
    /\ Len(ipn.IP) = 4
    /\ \A k \in 1..4 :
          ip[k] \div (2 ^ (8 - MaskBits(ipn.Bits, k)))
              = ipn.IP[k] \div (2 ^ (8 - MaskBits(ipn.Bits, k)))
IsLoopback(ip) == Len(ip) = 4 /\ ip[1] = 127

\* the network interfaces of the restoring host
IfLo == <<"l", "o">>
IfEth == <<"e", "t", "h", "0">>
IfNone == <<"w", "l", "a", "n", "9">>
HostInterfaces ==
    << [Name |-> IfLo, Addrs |-> <<IPNet(<<127, 0, 0, 1>>, 8), IPNet(<<>>, 128)>>],
       [Name |-> IfEth, Addrs |-> <<IPNet(<<>>, 64), IPNet(<<10, 0, 0, 2>>, 24)>>] >>
\* net.InterfaceAddrs(): the addresses of every interface
RECURSIVE InterfaceAddrs(_)
InterfaceAddrs(ifs) == IF ifs = <<>> THEN <<>> ELSE Head(ifs).Addrs \o InterfaceAddrs(Tail(ifs))

\* CLIClient.HostIPs: the text of every IPv4 address of the host that is not
\* a loopback address
RECURSIVE HostIPsOf(_)
HostIPsOf(addrs) ==
    IF addrs = <<>> THEN <<>>
    ELSE IF Len(Head(addrs).IP) # 4 \/ IsLoopback(Head(addrs).IP) THEN HostIPsOf(Tail(addrs))
    ELSE <<IPString(Head(addrs).IP)>> \o HostIPsOf(Tail(addrs))
HostIPs(ok) == IF ok THEN HostIPsOf(InterfaceAddrs(HostInterfaces)) ELSE <<>>

\* primaryIPv4OfInterface: [err, ip], the first IPv4 address of the named
\* interface that is not a loopback address
FirstIPv4(addrs) ==
    IF HostIPsOf(addrs) = <<>> THEN [err |-> TRUE, ip |-> <<>>]
    ELSE [err |-> FALSE, ip |-> HostIPsOf(addrs)[1]]
primaryIPv4OfInterface(ifName) ==
    IF \E i \in 1..Len(HostInterfaces) : HostInterfaces[i].Name = ifName
    THEN FirstIPv4(HostInterfaces[CHOOSE i \in 1..Len(HostInterfaces) :
                                      HostInterfaces[i].Name = ifName].Addrs)
    ELSE [err |-> TRUE, ip |-> <<>>]

\* a host none of whose networks ever holds a recorded address
conflictNever(addr) == FALSE
\* conflictWithHostIPv4: the address parses as IPv4 and lies in the network
\* of an IPv4 address of some interface
conflictWithHostIPv4(addr) ==
    /\ ParseIPv4(addr) # <<>>
    /\ \E i \in 1..Len(InterfaceAddrs(HostInterfaces)) :
          IPNetContains(InterfaceAddrs(HostInterfaces)[i], ParseIPv4(addr))

(***************************************************************************)
(* DefaultBackupEngine.Restore, single unit: the unit specification.  rst  *)
(* holds the locals of one Restore from the decoded container.json to the  *)
(* arguments of CreateContainerFromSpec: the request's options, cj (its    *)
(* HostConfig and Networks are changed in place), netCfg and newName.      *)
(* The calls that ensure networks and volumes and restore the data of the  *)
(* mounts lie between and leave these values alone.                        *)
(***************************************************************************)
NetA == <<"n", "e", "t", "a">>
NetB == <<"n", "e", "t", "b">>
NetC == <<"n", "e", "t", "c">>
NetworkNames == {NetA, NetB, NetC}
UnitName == <<"w", "e", "b">>
OtherName == <<"w", "e", "b", "2">>
RelocateRoot == <<"/", "r">>
MissingBind == <<"/", "m", "/", "b">>
IPEth == IPString(<<10, 0, 0, 2>>)          \* an address of the host
IPLoopback == IPString(<<127, 0, 0, 1>>)    \* the loopback address of the host
IPAbsent == IPString(<<10, 9, 9, 9>>)       \* no address of the host
IPForced == IPString(<<10, 0, 0, 7>>)
IPInSubnet == IPString(<<10, 0, 0, 5>>)     \* inside 10.0.0.0/24 of eth0
IPOutside == IPString(<<172, 30, 0, 5>>)    \* inside no network of the host
IPv6Text == <<"f", "e", "8", "0", ":", ":", "5">>
Seccomp == <<"s", "e", "c", "c", "o", "m", "p", "=", "x">>
AppArmor == <<"a", "p", "p", "a", "r", "m", "o", "r", "=", "y">>
NoNewPrivileges == <<"n", "o", "-", "n", "e", "w">>
SeccompKey == <<"s", "e", "c", "c", "o", "m", "p", "=">>
AppArmorKey == <<"a", "p", "p", "a", "r", "m", "o", "r", "=">>

\* nat.PortBinding
PortBinding(hostIP, hostPort) == [HostIP |-> hostIP, HostPort |-> hostPort]
\* network.EndpointSettings: IPAMConfig is <<>> (nil) or one
\* EndpointIPAMConfig with its IPv4Address
Endpoint(aliases, ipam) == [Aliases |-> aliases, IPAMConfig |-> ipam]
IPAM(addr) == <<[IPv4Address |-> addr]>>
EmptyMap == [x \in {} |-> <<>>]

\* RestoreOptions
ZeroOptions ==
    [ContainerName |-> <<>>, Start |-> FALSE, NetworkMap |-> EmptyMap, ParentMap |-> EmptyMap,
     DropHostIPs |-> FALSE, ReassignIPs |-> FALSE, FallbackBridge |-> FALSE,
     WaitHealthy |-> FALSE, WaitTimeoutSeconds |-> 0, ReplaceExisting |-> FALSE,
     BindRestoreRoot |-> <<>>, ForceBindIP |-> <<>>, BindInterface |-> <<>>,
     DropDevices |-> FALSE, DropCaps |-> FALSE, DropSeccomp |-> FALSE,
     DropAppArmor |-> FALSE, AutoRelaxIPs |-> FALSE]
\* the options project Restore hands to the Restore of a member
MemberOptions(o) ==
    [ZeroOptions EXCEPT !.Start = FALSE, !.ReplaceExisting = o.ReplaceExisting,
                        !.DropHostIPs = o.DropHostIPs, !.ReassignIPs = o.ReassignIPs,
                        !.FallbackBridge = o.FallbackBridge,
                        !.BindRestoreRoot = o.BindRestoreRoot,
                        !.ForceBindIP = o.ForceBindIP, !.BindInterface = o.BindInterface,
                        !.DropDevices = o.DropDevices, !.DropCaps = o.DropCaps,
                        !.DropSeccomp = o.DropSeccomp, !.DropAppArmor = o.DropAppArmor]

\* the order in which a range over a map with the keys of m visits them,
\* given an order iter of all names
KeysIn(m, iter) == SelectSeq(iter, LAMBDA n : n \in DOMAIN m)

\* cj.NetworkSettings.Networks after the network name mapping: every
\* attachment under its new name, a later one of the range replacing an
\* earlier one of the same new name
MappedName(networkMap, name) ==
    IF name \in DOMAIN networkMap /\ networkMap[name] # <<>> THEN networkMap[name] ELSE name
RECURSIVE MapNetworks(_, _, _, _)
MapNetworks(networks, networkMap, keys, mapped) ==
    IF keys = <<>> THEN mapped
    ELSE MapNetworks(networks, networkMap, Tail(keys),
                     [n \in (DOMAIN mapped) \cup {MappedName(networkMap, Head(keys))} |->
                         IF n = MappedName(networkMap, Head(keys)) THEN networks[Head(keys)]
                         ELSE mapped[n]])
ApplyNetworkMap(networks, networkMap, iter) ==
    IF DOMAIN networks # {} /\ DOMAIN networkMap # {}
    THEN MapNetworks(networks, networkMap, KeysIn(networks, iter), EmptyMap)
    ELSE networks

\* a validation that keeps the bindings whose host IP the host lacks
FilterBindingsKeepsAbsent(bindings, dropHostIPs, present) ==
    IF dropHostIPs THEN [i \in 1..Len(bindings) |-> [bindings[i] EXCEPT !.HostIP = <<>>]]
    ELSE bindings
\* the bindings of one port after the host-IP validation
RECURSIVE FilterBindings(_, _, _)
FilterBindings(bindings, dropHostIPs, present) ==
    IF bindings = <<>> THEN <<>>
    ELSE IF Head(bindings).HostIP = <<>> \/ dropHostIPs
    THEN <<[Head(bindings) EXCEPT !.HostIP = <<>>]>> \o FilterBindings(Tail(bindings), dropHostIPs, present)
    ELSE IF Head(bindings).HostIP \in present
    THEN <<Head(bindings)>> \o FilterBindings(Tail(bindings), dropHostIPs, present)
    ELSE FilterBindings(Tail(bindings), dropHostIPs, present)
\* hostCfg.PortBindings after the host-IP validation, hostIPs being what
\* HostIPs returned (nothing when it failed)
ValidateHostIPs(portBindings, dropHostIPs, hostIPs) ==
    [p \in DOMAIN portBindings |->
        FilterBindings(portBindings[p], dropHostIPs, {hostIPs[i] : i \in 1..Len(hostIPs)})]

\* netCfg.EndpointsConfig: the range over the attachments in the order keys;
\* conflictingStaticIP stays set once one attachment has set it
IPAMConflicts(ns) ==
    ns.IPAMConfig # <<>> /\ ns.IPAMConfig[1].IPv4Address # <<>>
    /\ conflictWithHostIPv4(ns.IPAMConfig[1].IPv4Address)
RECURSIVE Endpoints(_, _, _, _, _)
EndpointNext(networks, o, keys, conflict, eps) ==
    Endpoints(networks, o, Tail(keys), conflict,
              [n \in (DOMAIN eps) \cup {Head(keys)} |->
                  IF n # Head(keys) THEN eps[n]
                  ELSE Endpoint(networks[n].Aliases,
                                IF o.ReassignIPs \/ (o.AutoRelaxIPs /\ conflict) THEN <<>>
                                ELSE networks[n].IPAMConfig)])
Endpoints(networks, o, keys, conflict, eps) ==
    IF keys = <<>> THEN eps
    ELSE EndpointNext(networks, o, keys, conflict \/ IPAMConflicts(networks[Head(keys)]), eps)
NetworkingConfig(networks, o, iter) == Endpoints(networks, o, KeysIn(networks, iter), FALSE, EmptyMap)

\* newName
NewName(cj, o) ==
    IF o.ContainerName # <<>> THEN o.ContainerName ELSE TrimPrefix(cj.Name, Slash)

\* hostCfg after the safe-mode drops
DropsSecurityOpt(o, opt) ==
    \/ o.DropSeccomp /\ Contains(opt, SeccompKey)
    \/ o.DropAppArmor /\ Contains(opt, AppArmorKey)
SafeMode(hc, o) ==
    [hc EXCEPT !.Devices = IF o.DropDevices THEN <<>> ELSE @,
               !.CapAdd = IF o.DropCaps THEN <<>> ELSE @,
               !.CapDrop = IF o.DropCaps THEN <<>> ELSE @,
               !.SecurityOpt = IF o.DropSeccomp \/ o.DropAppArmor
                               THEN SelectSeq(@, LAMBDA opt : ~DropsSecurityOpt(o, opt))
                               ELSE @]

\* the preferred IP of the port bindings: the forced IP, else the primary
\* IPv4 of the bind interface, else none
PreferredIP(o) ==
    IF o.ForceBindIP # <<>> THEN o.ForceBindIP
    ELSE IF o.BindInterface # <<>> /\ ~primaryIPv4OfInterface(o.BindInterface).err
    THEN primaryIPv4OfInterface(o.BindInterface).ip
    ELSE <<>>
ApplyPreferredIP(portBindings, ip) ==
    IF ip = <<>> THEN portBindings
    ELSE [p \in DOMAIN portBindings |->
             [i \in 1..Len(portBindings[p]) |-> [portBindings[p][i] EXCEPT !.HostIP = ip]]]

\* container.HostConfig, the part Restore works on
HostConfig(portBindings) ==
    [PortBindings |-> portBindings,
     Devices |-> <<"/dev/fuse">>, CapAdd |-> <<"NET_ADMIN">>, CapDrop |-> <<"MKNOD">>,
     SecurityOpt |-> <<Seccomp, AppArmor, NoNewPrivileges>>,
     Mounts |-> <<[Type |-> "bind", Source |-> MissingBind],
                  [Type |-> "bind", Source |-> OutsideDir],
                  [Type |-> "volume", Source |-> VolSource]>>]
\* the decoded container.json
ContainerJSON(portBindings, networks) ==
    [Name |-> Slash \o UnitName, HostConfig |-> HostConfig(portBindings), Networks |-> networks]

\* the arguments of CreateContainerFromSpec: hostCfg, netCfg and newName
UnitSpecOf(name, hc, eps) ==
    [Name |-> name, PortBindings |-> hc.PortBindings, Devices |-> hc.Devices,
     CapAdd |-> hc.CapAdd, CapDrop |-> hc.CapDrop, SecurityOpt |-> hc.SecurityOpt,
     Mounts |-> hc.Mounts, EndpointsConfig |-> eps]
HcValidated(hc, o, hostOk) ==
    [hc EXCEPT !.PortBindings = ValidateHostIPs(@, o.DropHostIPs, HostIPs(hostOk))]
HcRelocated(hc, f, o) == [hc EXCEPT !.Mounts = RelocateMounts(f, @, o)]
HcPreferred(hc, o) == [hc EXCEPT !.PortBindings = ApplyPreferredIP(@, PreferredIP(o))]
\* the unit specification of a single-unit Restore of cj with the options o,
\* HostIPs answering hostOk and the two ranges over the attachments going in
\* the orders mapIter and netIter
UnitSpec(cj, f, o, hostOk, mapIter, netIter) ==
    UnitSpecOf(NewName(cj, o),
               HcPreferred(HcRelocated(SafeMode(HcValidated(cj.HostConfig, o, hostOk), o), f, o), o),
               NetworkingConfig(ApplyNetworkMap(cj.Networks, o.NetworkMap, mapIter), o, netIter))

RstIdle(cj, o) ==
    [pc |-> "request", via |-> "", requested |-> o, opts |-> ZeroOptions, cj0 |-> cj,
     hostCfg |-> cj.HostConfig, networks |-> cj.Networks, netCfg |-> EmptyMap,
     newName |-> <<>>, removed |-> <<>>, hostOk |-> TRUE, spec |-> <<>>]

\* Restore is called by the caller of the engine with the request's options
RuSingleRequest ==
    /\ rst # <<>> /\ rst.pc = "request"
    /\ rst' = [rst EXCEPT !.pc = "network map", !.via = "single", !.opts = rst.requested]
    /\ UNCHANGED <<fs, ctxDone, tar, drv, ord, eng>>

\* Restore is called by project Restore for a member
RuMemberRequest ==
    /\ rst # <<>> /\ rst.pc = "request"
    /\ rst' = [rst EXCEPT !.pc = "network map", !.via = "project",
                          !.opts = MemberOptions(rst.requested)]
    /\ UNCHANGED <<fs, ctxDone, tar, drv, ord, eng>>

\* the network name mapping of the attachments
RuNetworkMap ==
    /\ rst # <<>> /\ rst.pc = "network map"
    /\ \E iter \in Iterations(DOMAIN rst.networks) :
          rst' = [rst EXCEPT !.pc = "port bindings",
                             !.networks = ApplyNetworkMap(@, rst.opts.NetworkMap, iter)]
    /\ UNCHANGED <<fs, ctxDone, tar, drv, ord, eng>>

\* the host-IP validation of the port bindings; HostIPs is asked only when
\* there are port bindings, and its error is dropped
RuPortBindings ==
    /\ rst # <<>> /\ rst.pc = "port bindings"
    /\ \E hostOk \in {b \in BOOLEAN : DOMAIN rst.hostCfg.PortBindings = {} => b} :
          rst' = [rst EXCEPT !.pc = "networking", !.hostOk = hostOk,
                             !.hostCfg = HcValidated(@, rst.opts, hostOk)]
    /\ UNCHANGED <<fs, ctxDone, tar, drv, ord, eng>>

\* netCfg from the attachments
RuNetworking ==
    /\ rst # <<>> /\ rst.pc = "networking"
    /\ \E iter \in Iterations(DOMAIN rst.networks) :
          rst' = [rst EXCEPT !.pc = "host config",
                             !.netCfg = NetworkingConfig(rst.networks, rst.opts, iter)]
    /\ UNCHANGED <<fs, ctxDone, tar, drv, ord, eng>>

\* newName, the removal of a unit of that name when asked for, the
\* safe-mode drops and the relocation of the missing bind sources
RuHostConfig ==
    /\ rst # <<>> /\ rst.pc = "host config"
    /\ rst' = [rst EXCEPT !.pc = "preferred ip",
                          !.newName = NewName(rst.cj0, rst.opts),
                          !.removed = IF rst.opts.ReplaceExisting /\ NewName(rst.cj0, rst.opts) # <<>>
                                      THEN NewName(rst.cj0, rst.opts) ELSE <<>>,
                          !.hostCfg = HcRelocated(SafeMode(@, rst.opts), fs, rst.opts)]
    /\ fs' = RelocateDirs(fs, fs, rst.hostCfg.Mounts, rst.opts)
    /\ UNCHANGED <<ctxDone, tar, drv, ord, eng>>

\* the forced or preferred bind IP; cfg, hostCfg, netCfg and newName are
\* then what CreateContainerFromSpec is called with
RuPreferredIP ==
    /\ rst # <<>> /\ rst.pc = "preferred ip"
    /\ rst' = [rst EXCEPT !.pc = "create",
                          !.hostCfg = HcPreferred(@, rst.opts),
                          !.spec = <<UnitSpecOf(rst.newName, HcPreferred(rst.hostCfg, rst.opts),
                                                rst.netCfg)>>]
    /\ UNCHANGED <<fs, ctxDone, tar, drv, ord, eng>>

\* the recorded port bindings and attachments a Restore is given
Port80 == "80/tcp"
BindingLists ==
    { <<PortBinding(IPAbsent, "8080")>>,
      <<PortBinding(IPEth, "8080")>>,
      <<PortBinding(IPLoopback, "8080")>>,
      <<PortBinding(<<>>, "8080"), PortBinding(IPAbsent, "8081")>>,
      <<PortBinding(IPAbsent, "8080"), PortBinding(IPEth, "8081")>> }
PortBindingMaps == {EmptyMap} \cup {(Port80 :> b) : b \in BindingLists}
NetworkMaps ==
    { EmptyMap,
      (NetA :> Endpoint(<<>>, IPAM(IPInSubnet))),
      (NetA :> Endpoint(<<>>, IPAM(IPOutside))),
      (NetA :> Endpoint(<<>>, IPAM(IPInSubnet))) @@ (NetB :> Endpoint(<<>>, IPAM(IPOutside))),
      (NetA :> Endpoint(<<>>, <<>>)) @@ (NetB :> Endpoint(<<>>, IPAM(IPv6Text))) }
\* the options that bear on the ports and the networks
NetworkOptions ==
    { [ZeroOptions EXCEPT !.DropHostIPs = d, !.ReassignIPs = r, !.AutoRelaxIPs = a,
                          !.ForceBindIP = f, !.BindInterface = i, !.NetworkMap = m] :
        d \in BOOLEAN, r \in BOOLEAN, a \in BOOLEAN, f \in {<<>>, IPForced},
        i \in {<<>>, IfEth, IfNone}, m \in {EmptyMap, (NetA :> NetC)} }
\* the options that bear on the name, the safe mode and the bind mounts
SafetyOptions ==
    { [ZeroOptions EXCEPT !.DropDevices = d, !.DropCaps = c, !.DropSeccomp = s,
                          !.DropAppArmor = a, !.BindRestoreRoot = b,
                          !.ReplaceExisting = r, !.ContainerName = n] :
        d \in BOOLEAN, c \in BOOLEAN, s \in BOOLEAN, a \in BOOLEAN,
        b \in {<<>>, RelocateRoot}, r \in BOOLEAN, n \in {<<>>, OtherName} }
UnitInputs ==
    { <<ContainerJSON(p, n), o>> : p \in PortBindingMaps, n \in NetworkMaps, o \in NetworkOptions }
    \cup { <<ContainerJSON((Port80 :> <<PortBinding(IPAbsent, "8080"), PortBinding(IPEth, "8081")>>),
                           (NetA :> Endpoint(<<>>, IPAM(IPInSubnet)))), o>> : o \in SafetyOptions }

InitRestoreUnit ==
    /\ fs = InitFs
    /\ ctxDone = FALSE
    /\ tar = TarIdle
    /\ drv = <<>>
    /\ ord = <<>>
    /\ eng = <<>>
    /\ \E in \in UnitInputs : rst = RstIdle(in[1], in[2])

NextRestoreUnit ==
    \/ RuSingleRequest
    \/ RuMemberRequest
    \/ RuNetworkMap
    \/ RuPortBindings
    \/ RuNetworking
    \/ RuHostConfig
    \/ RuPreferredIP

SpecRestoreUnit == InitRestoreUnit /\ [][NextRestoreUnit]_vars

\* the IPv4 addresses of the interfaces of the host, and whether the text of
\* a recorded host IP names one of them
HostIPv4Addresses ==
    {InterfaceAddrs(HostInterfaces)[i].IP : i \in 1..Len(InterfaceAddrs(HostInterfaces))} \ {<<>>}
OnHost(hostIP) == ParseIPv4(hostIP) \in HostIPv4Addresses
\* a single-unit Restore has its unit specification ready for the creation
UnitReady(via) == rst # <<>> /\ rst.pc = "create" /\ rst.via = via
RecordedBindings ==
    UNION {{<<p, rst.cj0.HostConfig.PortBindings[p][i]>> :
                i \in 1..Len(rst.cj0.HostConfig.PortBindings[p])} :
            p \in DOMAIN rst.cj0.HostConfig.PortBindings}
\* the bindings of the unit specification that stem from the recorded
\* binding pb (the host port tells the bindings of one port apart)
SpecBindings(pb) ==
    {rst.spec[1].PortBindings[pb[1]][i] : i \in 1..Len(rst.spec[1].PortBindings[pb[1]])}
KeptAs(pb) == {c \in SpecBindings(pb) : c.HostPort = pb[2].HostPort}

\* C11 as stated: in single-unit Restore a recorded port binding whose
\* non-empty host IP is no IPv4 address of the host is absent from the unit
\* specification when drop-host-ips is off, and present with an empty host IP
\* when drop-host-ips is on.
C11_AbsentHostIP ==
    UnitReady("single") =>
        \A pb \in RecordedBindings :
            (pb[2].HostIP # <<>> /\ ~OnHost(pb[2].HostIP)) =>
                IF rst.opts.DropHostIPs
                THEN \E c \in KeptAs(pb) : c.HostIP = <<>>
                ELSE KeptAs(pb) = {}
\* C11 amended: such a binding is absent when drop-host-ips is off; when it
\* is on the binding is present, with an empty host IP if neither a forced
\* bind IP nor a bind interface with an IPv4 address is given, and with that
\* preferred IP otherwise.
C11_AbsentHostIPOrPreferred ==
    UnitReady("single") =>
        \A pb \in RecordedBindings :
            (pb[2].HostIP # <<>> /\ ~OnHost(pb[2].HostIP)) =>
                IF rst.opts.DropHostIPs
                THEN /\ KeptAs(pb) # {}
                     /\ \A c \in KeptAs(pb) :
                           c.HostIP = (IF rst.opts.ForceBindIP # <<>> THEN rst.opts.ForceBindIP
                                       ELSE IF rst.opts.BindInterface = IfEth THEN IPEth
                                       ELSE <<>>)
                ELSE KeptAs(pb) = {}
C11_Witness ==
    /\ UnitReady("single")
    /\ rst.opts.DropHostIPs /\ rst.opts.ForceBindIP = <<>> /\ rst.opts.BindInterface = <<>>
    /\ \E pb \in RecordedBindings :
          /\ pb[2].HostIP = IPAbsent
          /\ \E c \in KeptAs(pb) : c.HostIP = <<>>
    /\ \E pb \in RecordedBindings : pb[2].HostIP = IPEth

\* C12: in single-unit Restore without forced bind IP and without bind
\* interface, a recorded port binding whose host IP is an IPv4 address of the
\* host keeps that host IP in the unit specification, drop-host-ips on or off.
C12_PresentHostIPKept ==
    (UnitReady("single") /\ rst.opts.ForceBindIP = <<>> /\ rst.opts.BindInterface = <<>>) =>
        \A pb \in RecordedBindings :
            OnHost(pb[2].HostIP) => \E c \in KeptAs(pb) : c.HostIP = pb[2].HostIP

\* whether the fixed IPv4 address of an attachment lies in the network of an
\* IPv4 address of a host interface
AddressBit(ip, j) == (ip[((j - 1) \div 8) + 1] \div (2 ^ (7 - ((j - 1) % 8)))) % 2
InHostSubnet(ns) ==
    /\ ns.IPAMConfig # <<>>
    /\ ParseIPv4(ns.IPAMConfig[1].IPv4Address) # <<>>
    /\ \E i \in 1..Len(InterfaceAddrs(HostInterfaces)) :
          /\ InterfaceAddrs(HostInterfaces)[i].IP # <<>>
          /\ \A j \in 1..InterfaceAddrs(HostInterfaces)[i].Bits :
                AddressBit(ParseIPv4(ns.IPAMConfig[1].IPv4Address), j)
                    = AddressBit(InterfaceAddrs(HostInterfaces)[i].IP, j)
C19_MemberSpecAsSingle ==
    UnitReady("project") =>
        \E hostOk \in BOOLEAN, mapIter \in Iterations(NetworkNames),
           netIter \in Iterations(NetworkNames) :
            rst.spec[1] = UnitSpec(rst.cj0, fs, rst.requested, hostOk, mapIter, netIter)
\* the same for the Restore the caller asks for itself
UnitSpecIsComposition ==
    UnitReady("single") =>
        \E hostOk \in BOOLEAN, mapIter \in Iterations(NetworkNames),
           netIter \in Iterations(NetworkNames) :
            rst.spec[1] = UnitSpec(rst.cj0, fs, rst.requested, hostOk, mapIter, netIter)

(***************************************************************************)
(* Properties of Restore's creation, start and wait, and of the project    *)
(* workflows                                                               *)
(***************************************************************************)
\* the Restore calls of single units that have returned, and those of projects
UnitRestores == {r \in eng.returned : r.fn = "Restore" /\ r.target # "compose"}
ProjectRestores == {r \in eng.returned : r.fn = "Restore" /\ r.target = "compose"}

\* C14: Restore calls CreateContainer only when CreateContainerFromSpec
\* reported the capability as unavailable; when the structured creation was
\* attempted and failed, Restore returns an error and CreateContainer is
\* never called.
C14_FallbackOnlyWhenUnavailable ==
    \A r \in UnitRestores :
        /\ r.create.simple => r.create.kind = "unavailable"
        /\ r.create.kind = "failed" => (r.err /\ ~r.create.simple)

\* Restore from the creation of the unit on: the scratch directory holds the
\* extracted archive, the unit is created, the caller may cancel at any time
CreatedFrame(start, workDir) ==
    [Frame("Restore", "container", Request(<<>>, <<>>, SingleBackupPath, <<>>, <<>>, start))
        EXCEPT !.pc = "start", !.workDir = workDir,
               !.create = [kind |-> "created", text |-> <<>>, simple |-> FALSE, unit |-> TRUE]]
InitWait ==
    /\ rst = <<>>
    /\ fs = Mkdir(EngineFs, ScratchPath(RestoreScratchPrefix, 1)).fs
    /\ ctxDone \in BOOLEAN
    /\ tar = TarIdle
    /\ drv = <<>>
    /\ ord = <<>>
    /\ \E start \in BOOLEAN :
          eng = [EngIdle EXCEPT !.stack = <<CreatedFrame(start,
                                                        ScratchPath(RestoreScratchPrefix, 1))>>,
                                !.tmpSeq = 1]
NextWait ==
    \/ Cancel
    \/ RsStart
    \/ RsPoll
\* the goroutine that runs Restore keeps running: the loop of the wait is
\* not left between two iterations forever
SpecWait == InitWait /\ [][NextWait]_vars /\ WF_vars(RsPoll)

Waiting == Running("Restore", "wait")
\* the looks a wait makes at most: one every PollIntervalSeconds up to the
\* deadline
MaxPolls(r) == (r.deadline \div PollIntervalSeconds) + 1
WaitIsBounded ==
    /\ Waiting =>
          /\ Top.req.Start /\ Top.wait.WaitHealthy /\ Top.wait.Health
          /\ Top.seen \in {"", "neither"}
          /\ Top.polls < MaxPolls(Top) \/ Top.now > Top.deadline
          /\ Top.deadline = (IF Top.wait.WaitTimeoutSeconds > 0
                             THEN Top.wait.WaitTimeoutSeconds ELSE DefaultWaitSeconds)
    /\ \A r \in UnitRestores :
          /\ r.polls > 0 => (r.start /\ r.wait.WaitHealthy /\ r.wait.Health /\ r.startCalled)
          /\ r.polls <= MaxPolls(r)
          /\ r.seen = "timeout" => r.now > r.deadline
          /\ (r.step = "done" /\ ~r.wait.Health) => (r.polls = 0 /\ ~r.err)
          /\ (r.step = "done" /\ r.polls > 0) => ~r.err
\* C15: the state of the unit is polled only when start and wait-healthy are
\* requested and a health check was recorded; the polling ends at "healthy",
\* at a stopped unit or past the deadline, so that a waiting Restore returns;
\* without a recorded health check a created (and started) unit is returned
\* without a poll and without error.
C15_WaitEnds == [](WaitIsBounded) /\ (Waiting ~> (eng.stack = <<>>))
C15_Witness ==
    \E r \in UnitRestores :
        /\ r.seen = "timeout" /\ r.wait.WaitTimeoutSeconds = 0
        /\ r.polls = MaxPolls(r) /\ r.polls > 2 /\ ~r.err

\* C16: once the cancellation signal is raised the wait of Restore stops at
\* its next iteration and Restore returns an error: no iteration that began
\* under the signal leaves the loop running, and none ends in a result.
C16_CancelStopsWait ==
    /\ Waiting => ~Top.cancelSeen
    /\ \A r \in UnitRestores : r.cancelSeen => r.err

\* the Restore calls that a project Restore made for its members
MemberRestores == {r \in UnitRestores : r.depth = 2}
\* C17: no member of a project Restore is started by its own Restore; the
\* start requests of the project are issued when every member of the order
\* has been gone through, one per member in the resolved order, and only when
\* start was requested.
C17_StartAfterMembersInOrder ==
    /\ \A m \in MemberRestores : ~m.start /\ ~m.startCalled /\ m.polls = 0
    /\ (eng.stack # <<>> /\ eng.stack[1].target = "compose") => eng.stack[1].started = <<>>
    /\ \A r \in ProjectRestores :
          /\ r.started # <<>> => (r.start /\ r.i = Len(r.order) + 1)
          /\ (r.step = "done" /\ r.start) => r.started = r.order
C17_Witness ==
    \E r \in ProjectRestores :
        /\ r.start /\ Len(r.order) >= 2 /\ r.started = r.order
        /\ Len(r.attempted) >= 2 /\ Len(r.restored) < Len(r.attempted)

\* the member svc of the project Restore r had a Restore that failed, one
\* that succeeded
MemberOutcome(r, svc, err) ==
    \E m \in MemberRestores :
        /\ HasPrefix(m.backupPath, Join(Join(r.workDir, ContainersName), svc) \o Slash)
        /\ m.err = err
MemberArchives(f, path) ==
    {n \in EntryNames(f, path) :
        HasPrefix(n, ContainersName \o Slash) /\ HasSuffix(n, Slash \o ContainerTarGz)}
\* C20: the archive of a successful project Backup of n discovered members
\* holds n member archives under containers/.
C20_OneArchivePerMember ==
    \A r \in eng.returned :
        (r.fn = "Backup" /\ r.target = "compose" /\ ~r.err) =>
            Cardinality(MemberArchives(fs, r.outputPath)) = Len(r.refs)

\* C24: for a fixed backup, options and host the network part of the unit
\* specification of a single-unit Restore is one value: it is what the range
\* over the attachments yields in every visiting order.
C24_NetworkPartIsOrderFree ==
    UnitReady("single") =>
        \A iter \in Iterations(DOMAIN rst.networks) :
            rst.spec[1].EndpointsConfig = NetworkingConfig(rst.networks, rst.opts, iter)

NetworkConfigsEntry == NetworksName \o Slash \o NetworkConfigsName
\* C23: the archive of a successful single-unit Backup of a unit that the
\* inspected configuration shows attached to at least one network, none of
\* whose inspections failed, holds networks/network_configs.json.
C23_NetworkConfigsCaptured ==
    \A r \in SingleBackups :
        (~r.err /\ r.attached # {} /\ "network config" \notin r.failed) =>
            NetworkConfigsEntry \in EntryNames(fs, r.outputPath)

(***************************************************************************)
(* A Backup and the Restore of its archive, on the same host or on another *)
(***************************************************************************)
\* the compose file of the project blog: B depends on A
BlogCompose ==
    <<[json |-> "compose", name |-> ProjectNameBlog, services |-> {SvcA, SvcB},
       dependsOn |-> (SvcA :> {}) @@ (SvcB :> {SvcA}) @@ (SvcC :> {}), form |-> "map"]>>
BareBackupPath == <<"/", "i", "n", "/", "n", ".", "t", "g", "z">>
CraftedBackupPath == <<"/", "i", "n", "/", "c", ".", "t", "g", "z">>
\* a backup archive of a unit with a bind mount and no per-mount archive
BareArchive ==
    << Header(ContainerJSONName, TypeReg, <<>>,
              InspectJSON("array", IdUnit, Slash \o NameWeb, <<Mount("bind", <<>>, MissingBind)>>)),
       Header(FilesystemTarName, TypeReg, <<>>, FsExport),
       Header(MetadataName, TypeReg, <<>>, <<>>) >>
\* a backup archive whose per-mount archive of /h/b names an entry with ..
CraftedBindArchive ==
    << Header(<<"b", "/">>, TypeDir, <<>>, <<>>),
       Header(<<".", ".", "/", "e">>, TypeReg, <<>>, <<"n", "e", "w">>) >>
CraftedArchive ==
    << Header(ContainerJSONName, TypeReg, <<>>,
              InspectJSON("array", IdUnit, Slash \o NameWeb, <<MountBind>>)),
       Header(FilesystemTarName, TypeReg, <<>>, FsExport),
       Header(<<"v", "o", "l", "u", "m", "e", "s", "/">>, TypeDir, <<>>, <<>>),
       Header(<<"v", "o", "l", "u", "m", "e", "s", "/", "b", "i", "n", "d", "_", "b", ".", "t", "a", "r", ".", "g", "z">>, TypeReg, <<>>, CraftedBindArchive),
       Header(MetadataName, TypeReg, <<>>, <<>>) >>
\* the host of the Backup: the sources of the mounts of the unit c3, the
\* project blog, and two archives made elsewhere
PipelineFs ==
    Populate(EngineFs,
             << <<Join(BindSourceK, <<"g">>), FileNode(<<"k">>)>>,
                <<Join(VolOddSource, <<"f">>), FileNode(<<"o", "d", "d">>)>>,
                <<Join(VolBindSource, <<"f">>), FileNode(<<"v", "b">>)>>,
                <<Join(BlogPath, ComposeYml), FileNode(BlogCompose)>>,
                <<BareBackupPath, FileNode(BareArchive)>>,
                <<CraftedBackupPath, FileNode(CraftedArchive)>> >>)
\* a host that has none of the bind sources
OtherHost(f) == RemoveAll(RemoveAll(f, Dir(BindSource)), Dir(BindSourceK))

PipelineBackups ==
    { Frame("Backup", "container", Request(IdUnit, OutFile, <<>>, <<>>, <<>>, FALSE)),
      Frame("Backup", "compose", Request(<<>>, OutFile, <<>>, BlogPath, <<>>, FALSE)) }
RestoreOf(target, path, root, f) ==
    [Frame("Restore", target, Request(<<>>, <<>>, path, <<>>, <<>>, FALSE))
        EXCEPT !.bindRestoreRoot = root, !.fs0 = f]
\* the Backups of the caller that succeeded
Backed == {r \in eng.returned : r.fn = "Backup" /\ r.depth = 1 /\ ~r.err}

\* the caller backs up the unit c3 or the project blog
PlBackup ==
    /\ eng.stack = <<>>
    /\ eng.returned = {}
    /\ \E fr \in PipelineBackups : eng' = [eng EXCEPT !.stack = <<fr>>]
    /\ UNCHANGED <<rst, fs, ctxDone, tar, drv, ord>>

\* the caller restores the archive of its Backup, on the host of the Backup
\* or on a host without the bind sources; a unit with or without
\* bind-restore-root
PlRestore ==
    /\ eng.stack = <<>>
    /\ \A r \in eng.returned : r.fn = "Backup"
    /\ \E r \in Backed :
       \E other \in {b \in BOOLEAN : b => r.target = "container"},
          root \in {p \in {<<>>, RelocateRoot} : p # <<>> => r.target = "container"} :
          /\ fs' = IF other THEN OtherHost(fs) ELSE fs
          /\ eng' = [eng EXCEPT !.stack = <<RestoreOf(r.target, r.outputPath, root, fs')>>]
    /\ UNCHANGED <<rst, ctxDone, tar, drv, ord>>

\* the caller restores an archive made elsewhere
PlRestoreForeign ==
    /\ eng.stack = <<>>
    /\ eng.returned = {}
    /\ \E path \in {BareBackupPath, CraftedBackupPath}, root \in {<<>>, RelocateRoot} :
          eng' = [eng EXCEPT !.stack = <<RestoreOf("container", path, root, fs)>>]
    /\ UNCHANGED <<rst, fs, ctxDone, tar, drv, ord>>

InitPipeline ==
    /\ rst = <<>>
    /\ fs = PipelineFs
    /\ ctxDone = FALSE
    /\ tar = TarIdle
    /\ drv = <<>>
    /\ ord = <<>>
    /\ eng = EngIdle

NextPipeline ==
    \/ PlBackup
    \/ PlRestore
    \/ PlRestoreForeign
    \/ BkValidate
    \/ BkInspect
    \/ BkMkdirTemp
    \/ BkWriteContainerJSON
    \/ BkExport
    \/ BkMkdirVolumes
    \/ BkMount
    \/ BkVolumeConfigs
    \/ BkNetworks
    \/ BkMetadata
    \/ BkPackage
    \/ BpPrepare
    \/ BpLayout
    \/ BpDiscover
    \/ BpMember
    \/ BpMemberReturned
    \/ BpAggregate
    \/ BpPackage
    \/ RsMkdirTemp
    \/ RsExtract
    \/ RsReadContainerJSON
    \/ RsImage
    \/ RsMount
    \/ RsCreate
    \/ RsStart
    \/ RpMkdirTemp
    \/ RpExtract
    \/ RpOrder
    \/ RpMember
    \/ RpMemberReturned
    \/ RpStart

SpecPipeline == InitPipeline /\ [][NextPipeline]_vars

\* the single-unit Restores the caller asked for
CallerRestores == {r \in UnitRestores : r.depth = 1}
\* the mounts (by index) of a list that Backup archives
ArchivedMounts(mounts) == {i \in 1..Len(mounts) : MountArchive(mounts[i]).any}
\* the bind mounts (by index) of a list
BindMounts(mounts) ==
    {i \in 1..Len(mounts) : mounts[i].Type = "bind" /\ mounts[i].Source # <<>>}
IsDirAt(f, path) == Stat(f, path).st = "found" /\ f[Stat(f, path).loc].kind = "dir"

\* C26: a successful single-unit Restore of the archive of a single-unit
\* Backup finds and extracts the per-mount archive of every mount that the
\* Backup archived.
C26_ArchivedMountsRestored ==
    \A r \in CallerRestores :
        (~r.err /\ r.backupPath = OutFile) =>
            ArchivedMounts(r.cjMounts) \subseteq r.dataRestored

\* the per-mount archives of the backup archive at path
PerMountArchives(f, path) ==
    {n \in EntryNames(f, path) :
        HasPrefix(n, VolumesName \o Slash) /\ HasSuffix(n, TarGzSuffix)}
\* C29: the archive of a successful single-unit Backup holds one per-mount
\* archive for each mount that the Backup archived.
C29_OneArchivePerMount ==
    \A r \in SingleBackups :
        ~r.err =>
            Cardinality(PerMountArchives(fs, r.outputPath))
                = Cardinality(ArchivedMounts(r.infoMounts))

\* C25: after a successful single-unit Restore the host directory of every
\* bind mount of the configuration exists, at its recorded source or where
\* the unit mounts it.
C25_BindDirectoriesExist ==
    \A r \in CallerRestores :
        ~r.err =>
            \A i \in BindMounts(r.cjMounts) :
                \/ IsDirAt(fs, r.cjMounts[i].Source)
                \/ IsDirAt(fs, r.hostMounts[i].Source)

\* C22: after a successful single-unit Restore with bind-restore-root R, a
\* bind mount whose source was missing when Restore began is mounted by the
\* unit from R/<basename>, and the data of its archive, when the backup has
\* one, is below R/<basename>.
C22_MissingBindRelocated ==
    \A r \in CallerRestores :
        (~r.err /\ r.bindRestoreRoot # <<>>) =>
            \A i \in BindMounts(r.cjMounts) :
                IsNotExist(r.fs0, Stat(r.fs0, r.cjMounts[i].Source)) =>
                    /\ r.hostMounts[i].Source
                          = Join(r.bindRestoreRoot, Base(r.cjMounts[i].Source))
                    /\ i \in r.dataRestored =>
                          Exists(fs, Join(Join(r.bindRestoreRoot, Base(r.cjMounts[i].Source)),
                                          <<"g">>))

\* the locations that differ between the filesystems f0 and f
Changed(f0, f) == {l \in DOMAIN f : l \notin DOMAIN f0 \/ f[l] # f0[l]}
\* C27: what a single-unit Restore leaves created or written on the host is
\* below the source directory of a bind mount, on the way to it, or below the
\* bind restore root.
C27_BindRestoreStaysInside ==
    \A r \in CallerRestores :
        \A l \in Changed(r.fs0, fs) :
            \/ \E i \in BindMounts(r.cjMounts) :
                  \/ IsUnder(l, Elements(r.cjMounts[i].Source))
                  \/ IsUnder(Elements(r.cjMounts[i].Source), l)
            \/ r.bindRestoreRoot # <<>> /\ IsUnder(l, Elements(r.bindRestoreRoot))

\* the archive of the member svc in a project backup archive
MemberArchiveOf(svc) == ContainersName \o Slash \o svc \o Slash \o ContainerTarGz
\* C28: a project Restore that got through its members has called the
\* single-unit Restore for every member archive under containers/ of the
\* backup.
C28_EveryMemberAttempted ==
    \A r \in ProjectRestores :
        r.step = "done" =>
            \A n \in MemberArchives(fs, r.backupPath) :
                \E k \in 1..Len(r.attempted) : n = MemberArchiveOf(r.attempted[k])

(***************************************************************************)
(* The ensure operations of the runtime adapter.  newDefaultEngine hands   *)
(* the engine a compositeClient when docker.NewSDKClient succeeds and a    *)
(* CLIClient otherwise; Restore calls EnsureNetwork and EnsureVolume of    *)
(* that client once per captured config and drops what they return.  Here  *)
(* rst holds the client, the volumes and networks of the runtime, and the  *)
(* calls made so far with what each returned.                              *)
(***************************************************************************)
MaxEnsureCalls == 3

VolumeConfig(name, driver) == [Name |-> name, Driver |-> driver]
NetworkConfig(name, driver) == [Name |-> name, Driver |-> driver]
VolumeConfigs ==
    { VolumeConfig("data", "local"), VolumeConfig("data", "nfs"), VolumeConfig("logs", "local") }
NetworkConfigs ==
    { NetworkConfig("front", "bridge"), NetworkConfig("back", "macvlan") }

\* a runtime holds at most one volume and one network of a name
UniqueNames(s) == \A a \in s, b \in s : a.Name = b.Name => a = b
Runtimes ==
    { [volumes |-> v, networks |-> n] :
        v \in { s \in SUBSET VolumeConfigs : UniqueNames(s) }, n \in SUBSET NetworkConfigs }

\* CLIClient.EnsureVolume and CLIClient.EnsureNetwork
CLIClientEnsureVolume(rt, cfg) == [err |-> ErrNotImplemented, rt |-> rt]
CLIClientEnsureNetwork(rt, cfg) == [err |-> ErrNotImplemented, rt |-> rt]

\* SDKClient.EnsureVolume and SDKClient.EnsureNetwork: an idempotent upsert
\* that leaves a volume or network of that name untouched
SDKClientEnsureVolume(rt, cfg) ==
    [err |-> <<>>,
     rt  |-> IF \E v \in rt.volumes : v.Name = cfg.Name
             THEN rt ELSE [rt EXCEPT !.volumes = @ \cup {cfg}]]
SDKClientEnsureNetwork(rt, cfg) ==
    [err |-> <<>>,
     rt  |-> IF \E n \in rt.networks : n.Name = cfg.Name
             THEN rt ELSE [rt EXCEPT !.networks = @ \cup {cfg}]]

\* the client that newDefaultEngine gives the engine
DockerClientOf(sdkErr) == IF sdkErr THEN "CLIClient" ELSE "compositeClient"

EnsureCalled(op, cfg, r) ==
    rst' = [rst EXCEPT !.rt = r.rt,
                       !.calls = Append(@, [op |-> op, cfg |-> cfg, err |-> r.err,
                                            before |-> rst.rt, after |-> r.rt])]

\* e.dockerClient.EnsureVolume(ctx, vc)
EnsureVolume ==
    /\ Len(rst.calls) < MaxEnsureCalls
    /\ \E cfg \in VolumeConfigs :
        EnsureCalled("EnsureVolume", cfg,
                     IF rst.client = "compositeClient"
                     THEN SDKClientEnsureVolume(rst.rt, cfg)
                     ELSE CLIClientEnsureVolume(rst.rt, cfg))
    /\ UNCHANGED <<fs, ctxDone, tar, drv, ord, eng>>

\* e.dockerClient.EnsureNetwork(ctx, nc)
EnsureNetwork ==
    /\ Len(rst.calls) < MaxEnsureCalls
    /\ \E cfg \in NetworkConfigs :
        EnsureCalled("EnsureNetwork", cfg,
                     IF rst.client = "compositeClient"
                     THEN SDKClientEnsureNetwork(rst.rt, cfg)
                     ELSE CLIClientEnsureNetwork(rst.rt, cfg))
    /\ UNCHANGED <<fs, ctxDone, tar, drv, ord, eng>>

InitEnsure ==
    /\ fs = InitFs
    /\ ctxDone = FALSE
    /\ tar = TarIdle
    /\ drv = <<>>
    /\ ord = <<>>
    /\ eng = <<>>
    /\ \E sdkErr \in BOOLEAN, rt \in Runtimes :
        rst = [client |-> DockerClientOf(sdkErr), rt |-> rt, calls |-> <<>>]

NextEnsure ==
    \/ EnsureVolume
    \/ EnsureNetwork

SpecEnsure == InitEnsure /\ [][NextEnsure]_vars

\* C21: calling ensure-volume or ensure-network twice with the same
\* configuration never returns an error, and the second call is a no-op that
\* leaves the set of volumes and networks unchanged.
C21_EnsureTwiceIsNoOp ==
    \A j \in 1..Len(rst.calls) : \A i \in 1..(j - 1) :
        (rst.calls[i].op = rst.calls[j].op /\ rst.calls[i].cfg = rst.calls[j].cfg)
            => /\ rst.calls[i].err = <<>>
               /\ rst.calls[j].err = <<>>
               /\ rst.calls[j].after = rst.calls[j].before

====
